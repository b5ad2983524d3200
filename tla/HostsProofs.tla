----------------------------- MODULE HostsProofs ------------------------------
(***************************************************************************)
(* The pool of states of an application, slave states and sockets, for any *)
(* number of requests, states and modifications of the file, of rings,     *)
(* addresses and coroutines, of objects and system sockets, and for any    *)
(* timeouts.                                                               *)
(***************************************************************************)
EXTENDS MCHosts, FiniteSetTheorems, SequenceTheorems, TLAPS
-----------------------------------------------------------------------------
(* The pool of states is safe if applications return a status: a state     *)
(* serves one request at a time, and one that is in use in the pool is     *)
(* used by a request or was left behind by an empty response.              *)

PoolInv == TypeOK /\ Exclusive

\* A step for request q in ring r, as the other requests and rings see it: no other
\* request is in r, nothing but r and q changes, and q is afterwards in r as its
\* owner or gone, leaving r unmarked or with an empty response behind.
StepIn(q, r) ==
  /\ on[q] \in {NIL, r} /\ on'[q] \in {NIL, r}
  /\ \A p \in Request \ {q} : on'[p] = on[p] /\ on[p] # r
  /\ \A x \in Ring \ {r} : /\ x \in busy' <=> x \in busy
                           /\ env'[x] = env[x] /\ main'[x] = main[x] /\ at'[x] = at[x]
  /\ on'[q] = r => r \in busy' /\ env'[r] = q /\ main'[r] = q
  /\ on'[q] = NIL /\ r \in busy' => at'[r] = "end" /\ env'[r] = q
  /\ Range(pool'.states) \subseteq Range(pool.states) \cup {r}

LEMMA StepInExclusive ==
  ASSUME PoolInv, TypeOK', NEW q \in Request, NEW r \in Ring, StepIn(q, r)
  PROVE  Exclusive'
<1> SUFFICES ASSUME NEW p \in Request, on'[p] # NIL
             PROVE  on'[p] \in busy' /\ env'[on'[p]] = p /\ main'[on'[p]] = p
  BY DEF Exclusive, OwnsRing
<1>1. CASE p = q
  BY <1>1 DEF StepIn
<1>2. CASE p # q
  <2>1. on'[p] = on[p] /\ on[p] \in Ring \ {r}
    BY <1>2, RingPoolAssumption DEF StepIn, PoolInv, TypeOK
  <2>2. on[p] \in busy /\ env[on[p]] = p /\ main[on[p]] = p
    BY <2>1 DEF PoolInv, Exclusive, OwnsRing
  <2> QED
    BY <2>1, <2>2 DEF StepIn
<1> QED
  BY <1>1, <1>2

LEMMA StepInNoLeak ==
  ASSUME PoolInv, TypeOK', NoLeak, NEW q \in Request, NEW r \in Ring, StepIn(q, r)
  PROVE  NoLeak'
<1> SUFFICES ASSUME NEW x \in busy' \cap Range(pool'.states)
             PROVE  (\E p \in Request : on'[p] = x) \/ (at'[x] = "end" /\ env'[x] # NIL)
  BY DEF NoLeak
<1>1. CASE x = r
  BY <1>1, RingPoolAssumption DEF StepIn
<1>2. CASE x # r
  <2>1. x \in Ring \ {r} /\ x \in busy \cap Range(pool.states)
    BY <1>2 DEF StepIn, TypeOK
  <2>2. CASE at[x] = "end" /\ env[x] # NIL
    BY <2>1, <2>2 DEF StepIn
  <2>3. CASE \E p \in Request : on[p] = x
    BY <2>1, <2>3, RingPoolAssumption DEF StepIn
  <2> QED
    BY <2>1, <2>2, <2>3 DEF NoLeak
<1> QED
  BY <1>1, <1>2
-----------------------------------------------------------------------------
\* What a resumed main_coro may answer when applications return a status.
LEMMA YieldFacts ==
  ASSUME ~NoStatus, NEW s \in {"app", "body", "end"}, NEW y \in YieldsFrom(s)
  PROVE  /\ y.flag \in {"RECEIVE", "RECEIVE nil", "SEND", "SEND nil", "error"}
         /\ y.status \in {"kept", "set"}
         /\ y.next \in {"app", "body", "end"}
         /\ y.flag = "SEND nil" => y.next = "end"
<1>1. y \in AppYields \/ y \in BodyYields \/ y \in EndYields
  <2>1. CASE s = "app"
    BY <2>1 DEF YieldsFrom
  <2>2. CASE s = "body"
    BY <2>2 DEF YieldsFrom
  <2>3. CASE s = "end"
    BY <2>3 DEF YieldsFrom
  <2> QED
    BY <2>1, <2>2, <2>3
<1>2. CASE y \in AppYields
  BY <1>2 DEF AppYields, Yields, Read
<1>3. CASE y \in BodyYields
  BY <1>3 DEF BodyYields, Yields, Read
<1>4. CASE y \in EndYields
  <2>1. y = [flag |-> "error", status |-> "kept", next |-> "end"]
    BY <1>4 DEF EndYields
  <2>2. y.flag = "error" /\ y.status = "kept" /\ y.next = "end"
    BY <2>1
  <2> QED
    BY <2>2
<1> QED
  BY <1>1, <1>2, <1>3, <1>4

\* The pool stays one of rings when a state is added, and no other ring comes in.
LEMMA LoadFacts ==
  ASSUME TypeOK, NEW r \in Ring, NEW reload, Load(r, reload)
  PROVE  /\ pool' \in [mtime : 0..MaxMtime \cup {NIL}, states : Seq(Ring)]
         /\ Range(pool'.states) \subseteq Range(pool.states) \cup {r}
         /\ r \in busy => r \in Fresh
<1> USE DEF Load, TypeOK
<1> DEFINE longer == Append(pool.states, r)
<1>1. CASE UNCHANGED pool
  BY <1>1 DEF FreeStates
<1>2. CASE r \in Fresh /\ pool' = [pool EXCEPT !.states = longer]
  <2>0. longer \in Seq(Ring)
    OBVIOUS
  <2>1. pool'.states = longer /\ pool' \in [mtime : 0..MaxMtime \cup {NIL}, states : Seq(Ring)]
    <3> HIDE DEF longer
    <3> QED
      BY <1>2, <2>0
  <2>2. \A i \in DOMAIN longer : longer[i] = r \/ (i \in DOMAIN pool.states /\ longer[i] = pool.states[i])
    OBVIOUS
  <2> HIDE DEF longer
  <2> QED
    BY <1>2, <2>1, <2>2 DEF Range
<1>3. CASE r \in Fresh /\ pool' = [mtime |-> mtime, states |-> <<r>>]
  <2>1. pool'.states = <<r>> /\ <<r>> \in Seq(Ring) /\ DOMAIN <<r>> = {1} /\ <<r>>[1] = r
    BY <1>3
  <2> QED
    BY <1>3, <2>1 DEF Range
<1> QED
  BY <1>1, <1>2, <1>3

-----------------------------------------------------------------------------
\* What Respond does, whatever the answer: q is in r or gone, and r is marked unless
\* the data of the state were cleared or q went without clearing them.
Responded(q, r, used, y) ==
  /\ busy' \subseteq Ring
  /\ \A x \in Ring \ {r} : x \in busy' <=> x \in used
  /\ pc' \in [Request -> {"idle", "reading", "sending"}]
  /\ on' \in [Request -> Ring \cup {NIL}]
  /\ \A p \in Request \ {q} : on'[p] = on[p] /\ pc'[p] = pc[p]
  /\ \/ on'[q] = r /\ pc'[q] # "idle" /\ r \in busy' /\ y.flag # "error"
     \/ on'[q] = NIL /\ pc'[q] = "idle" /\ y.flag = "SEND nil"
     \/ on'[q] = NIL /\ pc'[q] = "idle" /\ r \notin busy'

LEMMA RespondFacts ==
  ASSUME TypeOK, NEW q \in Request, NEW r \in Ring, NEW used \in SUBSET Ring, r \in used,
         NEW y, y.status \in {"kept", "set"}, Respond(q, r, used, y)
  PROVE  Responded(q, r, used, y)
<1> USE DEF TypeOK, Responded
<1>0. Assigned(used, r, y) = used
  BY DEF Assigned
<1>1. CASE y.flag \in {"RECEIVE", "RECEIVE nil"} /\ Serve(q, r, "reading") /\ busy' = used
  BY <1>1 DEF Serve
<1>2. CASE y.flag = "SEND" /\ Serve(q, r, "sending") /\ busy' = used
  BY <1>2 DEF Serve
<1>3. CASE /\ y.flag = "SEND nil" /\ pc' = [pc EXCEPT ![q] = "idle"]
           /\ LeaveRing(q, r) /\ busy' = used
  BY <1>3 DEF LeaveRing
<1>4. CASE /\ y.flag = "error" /\ pc' = [pc EXCEPT ![q] = "idle"]
           /\ LeaveRing(q, r) /\ busy' = Release(used, r, y)
  BY <1>4 DEF LeaveRing, Release
<1> QED
  BY <1>0, <1>1, <1>2, <1>3, <1>4 DEF Respond

LEMMA EnterPoolStep ==
  ASSUME ~NoStatus, PoolInv, NEW q \in Request, Enter(q)
  PROVE  TypeOK' /\ \E r \in Ring : StepIn(q, r)
<1>1. PICK r \in Ring, y \in YieldsFrom("app"), reload \in Reload :
        /\ Load(r, reload)
        /\ main' = [main EXCEPT ![r] = q] /\ at' = [at EXCEPT ![r] = y.next]
        /\ env' = [env EXCEPT ![r] = IF y.flag = "error" THEN NIL ELSE q]
        /\ Respond(q, r, busy \cup {r}, y)
  BY DEF Enter
<1>2. PICK used \in SUBSET Ring : used = busy \cup {r}
  BY DEF PoolInv, TypeOK
<1>3. y.status \in {"kept", "set"} /\ y.next \in {"app", "body", "end"}
      /\ (y.flag = "SEND nil" => y.next = "end")
  BY YieldFacts
<1>4. /\ pool' \in [mtime : 0..MaxMtime \cup {NIL}, states : Seq(Ring)]
      /\ Range(pool'.states) \subseteq Range(pool.states) \cup {r}
      /\ r \in busy => r \in Fresh
  BY <1>1, LoadFacts DEF PoolInv
<1>5. \A p \in Request : on[p] # r
  <2>1. CASE r \in busy
    BY <1>4, <2>1 DEF Fresh, Range, PoolInv, TypeOK
  <2>2. CASE r \notin busy
    BY <2>2, RingPoolAssumption DEF PoolInv, Exclusive, OwnsRing
  <2> QED
    BY <2>1, <2>2
<1>6. Responded(q, r, used, y)
  <2>1. Respond(q, r, used, y)
    BY <1>1, <1>2 DEF Respond, Assigned, Release
  <2>2. r \in used /\ TypeOK
    BY <1>2 DEF PoolInv
  <2>3. y.status \in {"kept", "set"}
    BY <1>3
  <2> QED
    BY <2>1, <2>2, <2>3, RespondFacts
<1>7. TypeOK'
  <2>1. mtime' = mtime /\ \A x \in Request : on[x] = NIL <=> pc[x] = "idle"
    BY DEF Enter, PoolInv, TypeOK
  <2>2. \A x \in Request : on'[x] = NIL <=> pc'[x] = "idle"
    BY <1>6, <2>1, RingPoolAssumption DEF Responded
  <2>3. /\ main' \in [Ring -> Request \cup {NIL}] /\ env' \in [Ring -> Request \cup {NIL}]
        /\ at' \in [Ring -> {"app", "body", "end"}]
    BY <1>1, <1>3 DEF PoolInv, TypeOK
  <2> QED
    BY <1>4, <1>6, <2>1, <2>2, <2>3 DEF PoolInv, TypeOK, Responded
<1>8. StepIn(q, r)
  <2>1. /\ main'[r] = q /\ (y.flag # "error" => env'[r] = q) /\ at'[r] = y.next
        /\ \A x \in Ring \ {r} : main'[x] = main[x] /\ env'[x] = env[x] /\ at'[x] = at[x]
    BY <1>1 DEF PoolInv, TypeOK
  <2>2. \A x \in Ring \ {r} : x \in busy' <=> x \in busy
    BY <1>2, <1>6 DEF Responded
  <2>3. on[q] = NIL
    BY DEF Enter, PoolInv, TypeOK
  <2> QED
    BY <1>3, <1>4, <1>5, <1>6, <2>1, <2>2, <2>3, RingPoolAssumption
       DEF StepIn, Responded
<1> QED
  BY <1>7, <1>8

\* A request that is in a ring is alone there.
LEMMA Alone ==
  ASSUME PoolInv, NEW q \in Request, pc[q] # "idle"
  PROVE  /\ on[q] \in Ring /\ on[q] \in busy /\ env[on[q]] = q /\ main[on[q]] = q
         /\ \A p \in Request \ {q} : on[p] # on[q]
<1>1. on[q] \in Ring
  BY DEF PoolInv, TypeOK
<1>2. on[q] # NIL
  BY DEF PoolInv, TypeOK
<1> QED
  BY <1>1, <1>2 DEF PoolInv, Exclusive, OwnsRing

LEMMA InputReadStep ==
  ASSUME ~NoStatus, PoolInv, NEW q \in Request, InputRead(q)
  PROVE  TypeOK' /\ \E r \in Ring : StepIn(q, r)
<1>1. PICK r \in Ring : r = on[q]
  BY Alone DEF InputRead
<1>2. r \in busy /\ env[r] = q /\ main[r] = q /\ \A p \in Request \ {q} : on[p] # r
  BY <1>1, Alone DEF InputRead
<1>3. PICK y \in YieldsFrom(at[r]) :
        /\ at' = [at EXCEPT ![r] = y.next]
        /\ env' = [env EXCEPT ![r] = IF y.flag = "error" THEN NIL ELSE @]
        /\ Respond(q, r, busy, y)
  BY <1>1 DEF InputRead
<1>4. y.status \in {"kept", "set"} /\ y.next \in {"app", "body", "end"}
      /\ (y.flag = "SEND nil" => y.next = "end")
  <2>1. at[r] \in {"app", "body", "end"}
    BY DEF PoolInv, TypeOK
  <2> QED
    BY <2>1, YieldFacts
<1>5. Responded(q, r, busy, y)
  <2>1. busy \in SUBSET Ring /\ r \in busy /\ TypeOK
    BY <1>2 DEF PoolInv, TypeOK
  <2>2. y.status \in {"kept", "set"}
    BY <1>4
  <2>3. Respond(q, r, busy, y)
    BY <1>3
  <2> QED
    BY <2>1, <2>2, <2>3, RespondFacts
<1>6. UNCHANGED <<mtime, pool, main>>
  BY DEF InputRead
<1>7. TypeOK'
  <2>1. \A x \in Request : on[x] = NIL <=> pc[x] = "idle"
    BY DEF PoolInv, TypeOK
  <2>2. \A x \in Request : on'[x] = NIL <=> pc'[x] = "idle"
    BY <1>5, <2>1, RingPoolAssumption DEF Responded
  <2>3. /\ env' \in [Ring -> Request \cup {NIL}]
        /\ at' \in [Ring -> {"app", "body", "end"}]
    BY <1>3, <1>4 DEF PoolInv, TypeOK
  <2> QED
    BY <1>5, <1>6, <2>2, <2>3 DEF PoolInv, TypeOK, Responded
<1>8. StepIn(q, r)
  <2>1. /\ main' = main /\ (y.flag # "error" => env'[r] = q) /\ at'[r] = y.next
        /\ \A x \in Ring \ {r} : env'[x] = env[x] /\ at'[x] = at[x]
    BY <1>2, <1>3, <1>6 DEF PoolInv, TypeOK
  <2> QED
    BY <1>1, <1>2, <1>4, <1>5, <1>6, <2>1, RingPoolAssumption DEF StepIn, Responded
<1> QED
  BY <1>7, <1>8

LEMMA BodyGoesOnStep ==
  ASSUME ~NoStatus, PoolInv, NEW q \in Request, BodyGoesOn(q)
  PROVE  TypeOK' /\ \E r \in Ring : StepIn(q, r)
<1>1. PICK r \in Ring : r = on[q]
  BY Alone DEF BodyGoesOn
<1>2. r \in busy /\ env[r] = q /\ main[r] = q /\ \A p \in Request \ {q} : on[p] # r
  BY <1>1, Alone DEF BodyGoesOn
<1>3. PICK y \in YieldsFrom(at[r]) :
        /\ at' = [at EXCEPT ![r] = y.next]
        /\ \/ /\ y.flag \in {"SEND", "RECEIVE"}
              /\ busy' = Assigned(busy, r, y)
              /\ UNCHANGED <<env, pc, on>>
           \/ /\ y.flag \in {"SEND nil", "RECEIVE nil", "error"}
              /\ busy' = Release(busy, r, y) /\ env' = [env EXCEPT ![r] = NIL]
              /\ pc' = [pc EXCEPT ![q] = "idle"] /\ LeaveRing(q, r)
  BY <1>1 DEF BodyGoesOn
<1>4. y.status \in {"kept", "set"} /\ y.next \in {"app", "body", "end"}
  <2>1. at[r] \in {"app", "body", "end"}
    BY DEF PoolInv, TypeOK
  <2> QED
    BY <2>1, YieldFacts
<1>5. UNCHANGED <<mtime, pool, main>>
  BY DEF BodyGoesOn
<1>6. CASE UNCHANGED <<busy, env, pc, on>>
  BY <1>1, <1>2, <1>3, <1>4, <1>5, <1>6, RingPoolAssumption DEF PoolInv, TypeOK, StepIn
<1>7. CASE /\ busy' = busy \ {r} /\ env' = [env EXCEPT ![r] = NIL]
           /\ pc' = [pc EXCEPT ![q] = "idle"] /\ on' = [on EXCEPT ![q] = NIL]
  <2>1. TypeOK'
    BY <1>3, <1>4, <1>5, <1>7 DEF PoolInv, TypeOK
  <2>2. StepIn(q, r)
    BY <1>1, <1>2, <1>3, <1>5, <1>7, RingPoolAssumption DEF PoolInv, TypeOK, StepIn
  <2> QED
    BY <2>1, <2>2
<1> QED
  BY <1>2, <1>3, <1>4, <1>6, <1>7 DEF Assigned, Release, LeaveRing
-----------------------------------------------------------------------------
LEMMA PoolStart == Init => PoolInv /\ NoLeak
<1> SUFFICES ASSUME Init PROVE PoolInv /\ NoLeak
  OBVIOUS
<1>1. pool \in [mtime : 0..MaxMtime \cup {NIL}, states : Seq(Ring)]
  BY DEF Init
<1> QED
  BY <1>1, RingPoolAssumption DEF Init, PoolInv, TypeOK, Exclusive, OwnsRing, NoLeak

LEMMA PoolNext ==
  ASSUME ~NoStatus, PoolInv, [Next]_vars
  PROVE  PoolInv' /\ (NoLeak => NoLeak')
<1>1. ASSUME NEW q \in Request, Enter(q) \/ InputRead(q) \/ BodyGoesOn(q)
      PROVE  PoolInv' /\ (NoLeak => NoLeak')
  <2>1. PICK r \in Ring : TypeOK' /\ StepIn(q, r)
    BY <1>1, EnterPoolStep, InputReadStep, BodyGoesOnStep
  <2> QED
    BY <2>1, StepInExclusive, StepInNoLeak DEF PoolInv
<1>2. CASE Touch
  BY <1>2, RingPoolAssumption
     DEF Touch, rings, PoolInv, TypeOK, Exclusive, OwnsRing, NoLeak
<1>3. CASE UNCHANGED vars
  BY <1>3 DEF vars, rings, PoolInv, TypeOK, Exclusive, OwnsRing, NoLeak
<1> QED
  BY <1>1, <1>2, <1>3 DEF Next

\* The types and the ownership of rings are inductive together, once every application
\* returns a status (common.lua:343-348, ringer.lua:121-137).
THEOREM PoolInvariant == ASSUME ~NoStatus PROVE Spec => [](PoolInv /\ NoLeak)
<1>1. PoolInv /\ NoLeak /\ [Next]_vars => (PoolInv /\ NoLeak)'
  BY PoolNext
<1> QED
  BY <1>1, PoolStart, PTL DEF Spec

\* Every variable of the pool and of the requests keeps its type.
THEOREM PoolTypeCorrect == ASSUME ~NoStatus PROVE Spec => []TypeOK
<1>1. PoolInv /\ NoLeak => TypeOK
  BY DEF PoolInv
<1> QED
  BY <1>1, PoolInvariant, PTL

\* However many requests wait for input or for their clients, and however often the
\* file is modified meanwhile, no two of them run in one state (ringer.lua:121-137).
THEOREM ExclusiveUse == ASSUME ~NoStatus PROVE Spec => []Exclusive
<1>1. PoolInv /\ NoLeak => Exclusive
  BY DEF PoolInv
<1> QED
  BY <1>1, PoolInvariant, PTL

\* A state of the pool that is marked as in use has a request in it, or the rest of
\* an empty response: no error or end of a body leaves one marked (ringer.lua:116-166).
THEOREM StatesComeBack == ASSUME ~NoStatus PROVE Spec => []NoLeak
<1>1. PoolInv /\ NoLeak => NoLeak
  OBVIOUS
<1> QED
  BY <1>1, PoolInvariant, PTL

\* What the pool does beside the other parts, it does by itself.
THEOREM PoolAlone == MCSpec => Spec
<1>1. MCInit => Init
  BY DEF MCInit
<1>2. [MCNext]_<<part, vars, ring, open, given, environment, caller, cache, thread, height, ctl,
                 obj, sys, clock, call>> => [Next]_vars
  BY DEF MCNext, Still
<1> QED
  BY <1>1, <1>2, PTL DEF MCSpec, Spec
-----------------------------------------------------------------------------
(* Slave states: what the stack of active calls, the rings and the caches  *)
(* are to each other.                                                      *)

Kinds4 == {"master", "slave", "remote", "resume"}
EnvsOrNone == Envs \cup {Slaves!NoEnv}
Code == [str : Strings, env : EnvsOrNone]

SlavesTypes ==
  /\ ring \in [RingObjs -> Addrs \cup {"closed", "none"}] /\ open \subseteq Addrs
  /\ given \in [RingObjs -> EnvsOrNone] /\ environment \in [Addrs -> EnvsOrNone]
  /\ caller \in [Addrs -> Slaves!Threads]
  /\ cache \in [Addrs -> [slave : SUBSET Code, master : SUBSET Code]]
  /\ thread \in [Slaves!Threads -> {"none", "running", "suspended", "dead"}]
  /\ height \in [Slaves!Threads \cup Addrs -> Int]
  /\ ctl \in Seq([kind : Kinds4, on : Slaves!Threads \cup Addrs, ring : RingObjs \cup {"none"}, env : EnvsOrNone])
  /\ Len(ctl) >= 1

\* A frame and the frames below it.  The two of a remote string are its slave's and
\* the one that entered the slave.
Placed(i) ==
  /\ ctl[i].kind = "master" <=> i = 1
  /\ ctl[i].kind = "slave" =>
       /\ i > 1 /\ ctl[i - 1].kind # "slave"
       /\ ctl[i].ring \in RingObjs /\ ctl[i].on \in Addrs /\ ring[ctl[i].ring] = ctl[i].on
       /\ caller[ctl[i].on] = ctl[i - 1].on
  /\ ctl[i].kind = "remote" =>
       /\ i > 2 /\ ctl[i - 1].kind = "slave" /\ ctl[i].on = ctl[i - 2].on
       /\ ctl[i].ring = ctl[i - 1].ring /\ ctl[i].env = given[ctl[i].ring]
  /\ ctl[i].kind = "resume" =>
       /\ i > 1 /\ ctl[i - 1].kind # "slave" /\ ctl[i].on \in Coroutines
       /\ \A j \in 1..i - 1 : ctl[j].on # ctl[i].on
  /\ ctl[i].kind # "slave" => ctl[i].on \in Slaves!Threads /\ thread[ctl[i].on] = "running"

Stacked == \A i \in 1..Len(ctl) : Placed(i)

\* An open state is one ring's own, and what is compiled for the ring has its environment.
Housed ==
  /\ \A r \in RingObjs : ring[r] \in Addrs =>
       /\ ring[r] \in open /\ environment[ring[r]] = given[r]
       /\ \A f \in cache[ring[r]].master : f.env = given[r]
  /\ \A r, s \in RingObjs : ring[r] = ring[s] /\ ring[r] \in Addrs => r = s

CallsOn(x) == {i \in 1..Len(ctl) : ctl[i].kind \in {"slave", "remote"} /\ ctl[i].on = x}
Balanced == \A x \in Slaves!Threads \cup Addrs : height[x] = Cardinality(CallsOn(x))

SlavesInv == SlavesTypes /\ Stacked /\ Housed /\ Balanced
-----------------------------------------------------------------------------
FrameSet == [kind : Kinds4, on : Slaves!Threads \cup Addrs, ring : RingObjs \cup {"none"}, env : EnvsOrNone]

LEMMA Apart ==
  /\ Slaves!Threads = {"main"} \cup Coroutines
  /\ \A a \in Addrs : a \notin Slaves!Threads /\ a # "closed" /\ a # "none"
  /\ "main" \notin Coroutines
BY SlavesAssumption DEF Slaves!RingsAssumption, Slaves!Threads

LEMMA FrameTypes ==
  ASSUME SlavesTypes, NEW i \in 1..Len(ctl)
  PROVE  /\ ctl[i] \in FrameSet /\ ctl[i].kind \in Kinds4 /\ ctl[i].on \in Slaves!Threads \cup Addrs
         /\ ctl[i].ring \in RingObjs \cup {"none"} /\ ctl[i].env \in EnvsOrNone
<1>1. ctl \in Seq(FrameSet)
  BY DEF SlavesTypes, FrameSet
<1>2. ctl[i] \in FrameSet
  BY <1>1
<1> QED
  BY <1>2 DEF FrameSet

LEMMA RunningIs ==
  ASSUME SlavesTypes
  PROVE  /\ Len(ctl) \in Nat /\ Len(ctl) >= 1 /\ Len(ctl) \in 1..Len(ctl)
         /\ Slaves!Running = ctl[Len(ctl)]
BY DEF SlavesTypes, Slaves!Running, Slaves!Last

\* A new frame on top, and the frames without the last.
LEMMA PushElements ==
  ASSUME SlavesTypes, NEW f \in FrameSet, ctl' = Append(ctl, f)
  PROVE  /\ ctl' \in Seq(FrameSet) /\ Len(ctl') = Len(ctl) + 1
         /\ \A i \in 1..Len(ctl) : ctl'[i] = ctl[i]
         /\ ctl'[Len(ctl) + 1] = f
<1>1. ctl \in Seq(FrameSet)
  BY DEF SlavesTypes, FrameSet
<1> QED
  BY <1>1, AppendProperties

LEMMA PopElements ==
  ASSUME SlavesTypes, Len(ctl) > 1, ctl' = Slaves!Front(ctl)
  PROVE  /\ ctl' \in Seq(FrameSet) /\ Len(ctl') = Len(ctl) - 1
         /\ \A i \in 1..Len(ctl) - 1 : ctl'[i] = ctl[i]
<1>1. ctl \in Seq(FrameSet) /\ Len(ctl) \in Nat
  BY DEF SlavesTypes, FrameSet
<1>2. ctl' = SubSeq(ctl, 1, Len(ctl) - 1)
  BY DEF Slaves!Front
<1> QED
  BY <1>1, <1>2, SubSeqProperties

\* A frame stays in place when nothing it stands on changes.
LEMMA PlacedKept ==
  ASSUME NEW i \in 1..Len(ctl), Len(ctl) \in Nat, Placed(i), \A j \in 1..i : ctl'[j] = ctl[j],
         ctl[i].kind = "slave" => /\ ring'[ctl[i].ring] = ring[ctl[i].ring]
                                  /\ caller'[ctl[i].on] = caller[ctl[i].on],
         ctl[i].kind = "remote" => given'[ctl[i].ring] = given[ctl[i].ring],
         ctl[i].kind # "slave" => thread'[ctl[i].on] = thread[ctl[i].on]
  PROVE  Placed(i)'
<1>1. /\ i \in Nat /\ ctl'[i] = ctl[i]
      /\ i > 1 => ctl'[i - 1] = ctl[i - 1]
      /\ i > 2 => ctl'[i - 2] = ctl[i - 2]
      /\ \A j \in 1..i - 1 : ctl'[j] = ctl[j]
  OBVIOUS
<1> QED
  BY <1>1 DEF Placed

\* The ring of a remote frame has its address.
LEMMA RemoteRing ==
  ASSUME SlavesTypes, Stacked, NEW i \in 1..Len(ctl), ctl[i].kind = "remote"
  PROVE  ctl[i].ring \in RingObjs /\ ring[ctl[i].ring] \in Addrs
<1>1. Placed(i)
  BY DEF Stacked
<1>2. i - 1 \in 1..Len(ctl) /\ ctl[i - 1].kind = "slave" /\ ctl[i].ring = ctl[i - 1].ring
  BY <1>1, RunningIs DEF Placed
<1>3. Placed(i - 1)
  BY <1>2 DEF Stacked
<1> QED
  BY <1>2, <1>3 DEF Placed
-----------------------------------------------------------------------------
(* The heights of the stacks.                                              *)

LEMMA CallsFinite ==
  ASSUME SlavesTypes, NEW x
  PROVE  IsFiniteSet(CallsOn(x)) /\ Cardinality(CallsOn(x)) \in Nat
<1>1. IsFiniteSet(1..Len(ctl))
  BY RunningIs, FS_Interval
<1>2. IsFiniteSet(CallsOn(x))
  BY <1>1, FS_Subset DEF CallsOn
<1> QED
  BY <1>2, FS_CardinalityType

LEMMA NoCalls ==
  ASSUME Balanced, NEW x \in Slaves!Threads \cup Addrs,
         \A i \in 1..Len(ctl) : ctl[i].kind \in {"slave", "remote"} => ctl[i].on # x
  PROVE  height[x] = 0
<1>1. CallsOn(x) = {}
  BY DEF CallsOn
<1> QED
  BY <1>1, FS_EmptySet DEF Balanced

LEMMA SameBalance ==
  ASSUME Balanced, ctl' = ctl, \A x \in Slaves!Threads \cup Addrs : height'[x] = height[x]
  PROVE  Balanced'
BY DEF Balanced, CallsOn, Slaves!Threads

LEMMA PushBalance ==
  ASSUME SlavesTypes, Balanced, NEW f \in FrameSet, ctl' = Append(ctl, f),
         \A x \in Slaves!Threads \cup Addrs :
           height'[x] = IF f.on = x /\ f.kind \in {"slave", "remote"} THEN height[x] + 1 ELSE height[x]
  PROVE  Balanced'
<1>1. SUFFICES ASSUME NEW x \in Slaves!Threads \cup Addrs
               PROVE  height'[x] = Cardinality(CallsOn(x)')
  BY DEF Balanced, Slaves!Threads
<1> DEFINE n == Len(ctl)
<1>2. n \in Nat /\ Len(ctl') = n + 1 /\ \A i \in 1..n : ctl'[i] = ctl[i]
  BY PushElements, RunningIs
<1>3. ctl'[n + 1] = f
  BY PushElements
<1>4. height[x] = Cardinality(CallsOn(x)) /\ IsFiniteSet(CallsOn(x)) /\ Cardinality(CallsOn(x)) \in Nat
  BY CallsFinite DEF Balanced
<1>5. n + 1 \notin CallsOn(x)
  BY <1>2 DEF CallsOn
<1> HIDE DEF n
<1>6. CallsOn(x)' = {i \in 1..(n + 1) : ctl'[i].kind \in {"slave", "remote"} /\ ctl'[i].on = x}
  BY <1>2 DEF CallsOn
<1>7. CallsOn(x) = {i \in 1..n : ctl[i].kind \in {"slave", "remote"} /\ ctl[i].on = x}
  BY DEF CallsOn, n
<1>8. 1..(n + 1) = 1..n \cup {n + 1}
  BY <1>2
<1>9. CASE f.on = x /\ f.kind \in {"slave", "remote"}
  <2>1. CallsOn(x)' = CallsOn(x) \cup {n + 1}
    BY <1>2, <1>3, <1>6, <1>7, <1>8, <1>9
  <2>2. Cardinality(CallsOn(x) \cup {n + 1}) = Cardinality(CallsOn(x)) + 1
    BY <1>4, <1>5, FS_AddElement
  <2> QED
    BY <1>4, <1>9, <2>1, <2>2
<1>10. CASE ~(f.on = x /\ f.kind \in {"slave", "remote"})
  <2>1. CallsOn(x)' = CallsOn(x)
    BY <1>2, <1>3, <1>6, <1>7, <1>8, <1>10
  <2> QED
    BY <1>4, <1>10, <2>1
<1> QED
  BY <1>9, <1>10

LEMMA PopBalance ==
  ASSUME SlavesTypes, Balanced, Len(ctl) > 1, ctl' = Slaves!Front(ctl),
         \A x \in Slaves!Threads \cup Addrs :
           height'[x] = IF ctl[Len(ctl)].on = x /\ ctl[Len(ctl)].kind \in {"slave", "remote"}
                          THEN height[x] - 1 ELSE height[x]
  PROVE  Balanced'
<1>1. SUFFICES ASSUME NEW x \in Slaves!Threads \cup Addrs
               PROVE  height'[x] = Cardinality(CallsOn(x)')
  BY DEF Balanced, Slaves!Threads
<1> DEFINE n == Len(ctl)
<1>2. n \in Nat /\ n > 1 /\ Len(ctl') = n - 1 /\ \A i \in 1..(n - 1) : ctl'[i] = ctl[i]
  BY PopElements, RunningIs
<1>3. height[x] = Cardinality(CallsOn(x)) /\ IsFiniteSet(CallsOn(x)) /\ Cardinality(CallsOn(x)) \in Nat
  BY CallsFinite DEF Balanced
<1>4. height'[x] = IF ctl[n].on = x /\ ctl[n].kind \in {"slave", "remote"} THEN height[x] - 1 ELSE height[x]
  OBVIOUS
<1> HIDE DEF n
<1>5. CallsOn(x)' = {i \in 1..(n - 1) : ctl'[i].kind \in {"slave", "remote"} /\ ctl'[i].on = x}
  BY <1>2 DEF CallsOn
<1>6. CallsOn(x) = {i \in 1..n : ctl[i].kind \in {"slave", "remote"} /\ ctl[i].on = x}
  BY DEF CallsOn, n
<1>7. 1..n = 1..(n - 1) \cup {n} /\ n \notin 1..(n - 1)
  BY <1>2
<1>8. CASE ctl[n].on = x /\ ctl[n].kind \in {"slave", "remote"}
  <2>1. CallsOn(x)' = CallsOn(x) \ {n} /\ n \in CallsOn(x)
    BY <1>2, <1>5, <1>6, <1>7, <1>8
  <2>2. Cardinality(CallsOn(x) \ {n}) = Cardinality(CallsOn(x)) - 1
    BY <1>3, <2>1, FS_RemoveElement
  <2> QED
    BY <1>3, <1>4, <1>8, <2>1, <2>2
<1>9. CASE ~(ctl[n].on = x /\ ctl[n].kind \in {"slave", "remote"})
  <2>1. CallsOn(x)' = CallsOn(x)
    BY <1>2, <1>5, <1>6, <1>7, <1>9
  <2> QED
    BY <1>3, <1>4, <1>9, <2>1
<1> QED
  BY <1>8, <1>9
-----------------------------------------------------------------------------
(* The cache.                                                              *)

LEMMA CacheGets ==
  ASSUME SlavesTypes, NEW a \in Addrs, NEW side \in {"slave", "master"}, NEW f \in Code,
         cache' = [cache EXCEPT ![a][side] = @ \cup {f}]
  PROVE  /\ cache' \in [Addrs -> [slave : SUBSET Code, master : SUBSET Code]]
         /\ \A b \in Addrs : cache'[b].master = IF b = a /\ side = "master" THEN cache[b].master \cup {f}
                                                                            ELSE cache[b].master
<1>1. cache \in [Addrs -> [slave : SUBSET Code, master : SUBSET Code]]
  BY DEF SlavesTypes
<1>2. CASE side = "slave"
  BY <1>1, <1>2
<1>3. CASE side = "master"
  BY <1>1, <1>3
<1> QED
  BY <1>2, <1>3

LEMMA CompiledMaster ==
  ASSUME SlavesInv, NEW r \in RingObjs, ring[r] \in Addrs, NEW str \in Strings,
         NEW f \in Slaves!Compiled(ring[r], "master", str)
  PROVE  f \in Code /\ f.env = given[r]
<1>1. /\ cache[ring[r]] \in [slave : SUBSET Code, master : SUBSET Code]
      /\ environment[ring[r]] = given[r] /\ given[r] \in EnvsOrNone
      /\ \A g \in cache[ring[r]].master : g.env = given[r]
  BY DEF SlavesInv, SlavesTypes, Housed
<1>2. f \in cache[ring[r]].master \/ f = [str |-> str, env |-> given[r]]
  BY <1>1 DEF Slaves!Compiled, Slaves!EnvOf
<1> QED
  BY <1>1, <1>2 DEF Code

LEMMA CompiledSlave ==
  ASSUME SlavesTypes, NEW a \in Addrs, NEW str \in Strings, NEW f \in Slaves!Compiled(a, "slave", str)
  PROVE  f \in Code
<1>1. cache[a] \in [slave : SUBSET Code, master : SUBSET Code]
  BY DEF SlavesTypes
<1>2. f \in cache[a].slave \/ f = [str |-> str, env |-> Slaves!NoEnv]
  BY <1>1 DEF Slaves!Compiled, Slaves!EnvOf
<1> QED
  BY <1>1, <1>2 DEF Code, EnvsOrNone
-----------------------------------------------------------------------------
(* The steps of the slaves.                                                *)

LEMMA NewStep ==
  ASSUME SlavesInv, NEW r \in RingObjs, NEW e \in Envs, Slaves!StateNew(r, e)
  PROVE  SlavesInv'
<1>1. PICK a \in Addrs \ open :
        /\ ring' = [ring EXCEPT ![r] = a] /\ open' = open \cup {a} /\ given' = [given EXCEPT ![r] = e]
        /\ environment' = [environment EXCEPT ![a] = e]
        /\ cache' = [cache EXCEPT ![a] = [slave |-> {}, master |-> {}]]
        /\ height' = [height EXCEPT ![a] = 0]
  BY DEF Slaves!StateNew, Slaves!NewCache
<1>2. ring[r] = "none" /\ UNCHANGED <<caller, thread, ctl>>
  BY DEF Slaves!StateNew
<1>3. SlavesTypes /\ Stacked /\ Housed /\ Balanced
  BY DEF SlavesInv
<1>4. /\ \A s \in RingObjs : ring'[s] = IF s = r THEN a ELSE ring[s]
      /\ \A s \in RingObjs : given'[s] = IF s = r THEN e ELSE given[s]
      /\ \A b \in Addrs : environment'[b] = IF b = a THEN e ELSE environment[b]
      /\ \A b \in Addrs : cache'[b] = IF b = a THEN [slave |-> {}, master |-> {}] ELSE cache[b]
      /\ \A x \in Slaves!Threads \cup Addrs : height'[x] = IF x = a THEN 0 ELSE height[x]
  BY <1>1, <1>3 DEF SlavesTypes
<1>5. SlavesTypes'
  <2>1. [slave |-> {}, master |-> {}] \in [slave : SUBSET Code, master : SUBSET Code]
    OBVIOUS
  <2>2. e \in EnvsOrNone
    BY DEF EnvsOrNone
  <2> QED
    BY <1>1, <1>2, <1>3, <2>1, <2>2 DEF SlavesTypes, Slaves!Threads
<1>6. Stacked'
  <2>1. SUFFICES ASSUME NEW i \in 1..Len(ctl) PROVE Placed(i)'
    BY <1>2 DEF Stacked
  <2>2. Placed(i) /\ Len(ctl) \in Nat
    BY <1>3, RunningIs DEF Stacked
  <2>3. ctl[i].kind = "slave" => ring'[ctl[i].ring] = ring[ctl[i].ring]
    BY <1>2, <1>4, <2>2, Apart DEF Placed
  <2>4. ctl[i].kind = "remote" => given'[ctl[i].ring] = given[ctl[i].ring]
    BY <1>2, <1>3, <1>4, Apart, RemoteRing
  <2> QED
    BY <1>2, <2>2, <2>3, <2>4, PlacedKept
<1>7. Housed'
  <2>1. ASSUME NEW s \in RingObjs, ring'[s] \in Addrs
        PROVE  /\ ring'[s] \in open' /\ environment'[ring'[s]] = given'[s]
               /\ \A f \in cache'[ring'[s]].master : f.env = given'[s]
    <3>1. CASE s = r
      BY <1>1, <1>4, <3>1
    <3>2. CASE s # r
      <4>1. ring'[s] = ring[s] /\ ring[s] \in Addrs /\ ring[s] \in open /\ ring[s] # a
        BY <1>1, <1>3, <1>4, <2>1, <3>2 DEF Housed
      <4> QED
        BY <1>1, <1>3, <1>4, <3>2, <4>1 DEF Housed
    <3> QED
      BY <3>1, <3>2
  <2>2. ASSUME NEW s \in RingObjs, NEW q \in RingObjs, ring'[s] = ring'[q], ring'[s] \in Addrs
        PROVE  s = q
    <3>1. \A p \in RingObjs : ring[p] # a
      BY <1>1, <1>3 DEF Housed
    <3> QED
      BY <1>3, <1>4, <2>2, <3>1 DEF Housed
  <2> QED
    BY <2>1, <2>2 DEF Housed
<1>8. Balanced'
  <2>1. \A i \in 1..Len(ctl) : ctl[i].kind \in {"slave", "remote"} => ctl[i].on # a
    <3>1. SUFFICES ASSUME NEW i \in 1..Len(ctl), ctl[i].kind \in {"slave", "remote"} PROVE ctl[i].on # a
      OBVIOUS
    <3>2. Placed(i)
      BY <1>3 DEF Stacked
    <3>3. CASE ctl[i].kind = "slave"
      BY <1>1, <1>3, <3>2, <3>3 DEF Placed, Housed
    <3>4. CASE ctl[i].kind = "remote"
      BY <1>1, <3>2, <3>4, Apart DEF Placed
    <3> QED
      BY <3>1, <3>3, <3>4
  <2>2. height[a] = 0
    BY <1>1, <1>3, <2>1, NoCalls
  <2> QED
    BY <1>2, <1>3, <1>4, <2>2, SameBalance
<1> QED
  BY <1>5, <1>6, <1>7, <1>8 DEF SlavesInv

LEMMA CloseStep ==
  ASSUME SlavesInv, NEW r \in RingObjs, ~Slaves!RunsIn(r), NEW to \in {"closed", "none"},
         Slaves!SlaveClose(r, to)
  PROVE  SlavesInv'
<1>1. SlavesTypes /\ Stacked /\ Housed /\ Balanced
  BY DEF SlavesInv
<1>2. /\ ring' = [ring EXCEPT ![r] = to]
      /\ UNCHANGED <<given, caller, cache, thread, height, ctl>>
      /\ IF ring[r] \in Addrs THEN open' = open \ {ring[r]} /\ environment' = [environment EXCEPT ![ring[r]] = Slaves!NoEnv]
         ELSE UNCHANGED <<open, environment>>
  BY DEF Slaves!SlaveClose
<1>3. /\ \A s \in RingObjs : ring'[s] = IF s = r THEN to ELSE ring[s]
      /\ to \notin Addrs
      /\ \A b \in Addrs : b # ring[r] => environment'[b] = environment[b] /\ (b \in open' <=> b \in open)
  BY <1>1, <1>2, Apart DEF SlavesTypes
<1>4. SlavesTypes'
  <2>1. Slaves!NoEnv \in EnvsOrNone
    BY DEF EnvsOrNone
  <2>2. open' \subseteq Addrs /\ environment' \in [Addrs -> EnvsOrNone]
    BY <1>1, <1>2, <2>1 DEF SlavesTypes
  <2> QED
    BY <1>1, <1>2, <2>2 DEF SlavesTypes, Slaves!Threads
<1>5. Stacked'
  <2>1. SUFFICES ASSUME NEW i \in 1..Len(ctl) PROVE Placed(i)'
    BY <1>2 DEF Stacked
  <2>2. Placed(i) /\ Len(ctl) \in Nat
    BY <1>1, RunningIs DEF Stacked
  <2>3. ctl[i].kind = "slave" => ctl[i].ring # r
    BY DEF Slaves!RunsIn, Slaves!Frames
  <2>4. ctl[i].kind = "slave" => ring'[ctl[i].ring] = ring[ctl[i].ring]
    BY <1>3, <2>2, <2>3 DEF Placed
  <2> QED
    BY <1>2, <2>2, <2>4, PlacedKept
<1>6. Housed'
  <2>1. ASSUME NEW s \in RingObjs, ring'[s] \in Addrs
        PROVE  s # r /\ ring'[s] = ring[s] /\ ring[s] # ring[r]
    BY <1>1, <1>3, <2>1 DEF Housed
  <2> QED
    BY <1>1, <1>2, <1>3, <2>1 DEF Housed
<1>7. Balanced'
  BY <1>1, <1>2, SameBalance
<1> QED
  BY <1>4, <1>5, <1>6, <1>7 DEF SlavesInv

\* A script enters a ring that runs only from the thread that entered it before.
LEMMA EnterStep ==
  ASSUME SlavesInv, Disciplined, NEW r \in RingObjs, NEW str \in Strings, Slaves!SlaveDostring(r, str)
  PROVE  SlavesInv'
<1> DEFINE n == Len(ctl)
           a == ring[r]
           t == ctl[Len(ctl)].on
<1>1. SlavesTypes /\ Stacked /\ Housed /\ Balanced
  BY DEF SlavesInv
<1>2. n \in Nat /\ n >= 1 /\ n \in 1..n /\ Slaves!Running = ctl[n]
  BY <1>1, RunningIs
<1>3. /\ ctl[n].kind # "slave" /\ a \in Addrs
      /\ \A i \in Slaves!Frames("slave") : ctl[i].ring = r => ctl[i - 1].on = t
      /\ caller' = [caller EXCEPT ![a] = t]
      /\ UNCHANGED <<ring, open, given, environment, thread>>
      /\ Slaves!Dostring("slave", a, r, a, "slave", str)
  BY <1>2 DEF Slaves!SlaveDostring, Slaves!InMaster
<1>4. t \in Slaves!Threads
  BY <1>1, <1>2, <1>3 DEF Stacked, Placed
<1>5. \A b \in Addrs : caller'[b] = IF b = a THEN t ELSE caller[b]
  BY <1>1, <1>3 DEF SlavesTypes
<1>6. \A i \in 1..n : ctl[i].kind = "slave" => caller'[ctl[i].on] = caller[ctl[i].on]
  <2>1. SUFFICES ASSUME NEW i \in 1..n, ctl[i].kind = "slave", ctl[i].on = a PROVE caller[a] = t
    BY <1>1, <1>5 DEF Stacked, Placed
  <2>2. Placed(i)
    BY <1>1 DEF Stacked
  <2>3. ctl[i].ring = r
    BY <1>1, <1>3, <2>1, <2>2 DEF Placed, Housed
  <2>4. i \in Slaves!Frames("slave")
    BY <1>2, <2>1 DEF Slaves!Frames, SlavesTypes
  <2> QED
    BY <1>3, <2>1, <2>2, <2>3, <2>4 DEF Placed
<1>7. caller' \in [Addrs -> Slaves!Threads]
  BY <1>1, <1>3, <1>4 DEF SlavesTypes
<1>8. CASE UNCHANGED <<cache, ctl, height>>
  <2>1. SlavesTypes'
    BY <1>1, <1>3, <1>7, <1>8 DEF SlavesTypes, Slaves!Threads
  <2>2. Stacked'
    <3>1. SUFFICES ASSUME NEW i \in 1..n PROVE Placed(i)'
      BY <1>8 DEF Stacked
    <3>2. Placed(i)
      BY <1>1 DEF Stacked
    <3> QED
      BY <1>2, <1>3, <1>6, <1>8, <3>2, PlacedKept
  <2>3. Housed'
    BY <1>1, <1>3, <1>8 DEF Housed
  <2>4. Balanced'
    BY <1>1, <1>8, SameBalance
  <2> QED
    BY <2>1, <2>2, <2>3, <2>4 DEF SlavesInv
<1>9. CASE ~UNCHANGED <<cache, ctl, height>>
  <2>1. PICK f \in Slaves!Compiled(a, "slave", str) :
          /\ cache' = [cache EXCEPT ![a]["slave"] = @ \cup {f}]
          /\ ctl' = Append(ctl, Slaves!Frame("slave", a, r, f.env))
          /\ height' = [height EXCEPT ![a] = @ + 1]
    BY <1>3, <1>9 DEF Slaves!Dostring
  <2>2. f \in Code
    BY <1>1, <1>3, <2>1, CompiledSlave
  <2> DEFINE new == Slaves!Frame("slave", a, r, f.env)
  <2>3. /\ new \in FrameSet /\ new.kind = "slave" /\ new.on = a /\ new.ring = r
    BY <1>3, <2>2 DEF Slaves!Frame, FrameSet, Kinds4, Code
  <2>4. ctl' = Append(ctl, new)
    BY <2>1
  <2> HIDE DEF new
  <2>5. /\ ctl' \in Seq(FrameSet) /\ Len(ctl') = n + 1
        /\ \A i \in 1..n : ctl'[i] = ctl[i]
        /\ ctl'[n + 1] = new
    BY <1>1, <2>3, <2>4, PushElements
  <2>6. /\ cache' \in [Addrs -> [slave : SUBSET Code, master : SUBSET Code]]
        /\ \A b \in Addrs : cache'[b].master = cache[b].master
    BY <1>1, <1>3, <2>1, <2>2, CacheGets
  <2>7. /\ height' \in [Slaves!Threads \cup Addrs -> Int]
        /\ \A x \in Slaves!Threads \cup Addrs : height'[x] = IF x = a THEN height[x] + 1 ELSE height[x]
    BY <1>1, <1>3, <2>1 DEF SlavesTypes
  <2>8. SlavesTypes'
    <3>1. Len(ctl') >= 1
      BY <1>2, <2>5
    <3> QED
      BY <1>1, <1>3, <1>7, <2>5, <2>6, <2>7, <3>1 DEF SlavesTypes, FrameSet, Slaves!Threads
  <2>9. Stacked'
    <3>1. \A i \in 1..n : Placed(i)'
      <4>1. SUFFICES ASSUME NEW i \in 1..n PROVE Placed(i)'
        OBVIOUS
      <4>2. Placed(i) /\ \A j \in 1..i : ctl'[j] = ctl[j]
        BY <1>1, <1>2, <2>5 DEF Stacked
      <4> QED
        BY <1>2, <1>3, <1>6, <4>2, PlacedKept
    <3>2. ASSUME NEW i, i = n + 1 PROVE Placed(i)'
      <4>1. i > 1 /\ i - 1 = n /\ i # 1 /\ ctl'[i - 1] = ctl[n] /\ ctl'[i] = new
        BY <1>2, <2>5, <3>2
      <4>2. caller'[a] = t /\ ring'[r] = a
        BY <1>3, <1>5
      <4> QED
        BY <1>3, <2>3, <4>1, <4>2 DEF Placed
    <3>3. \A i \in 1..(n + 1) : i \in 1..n \/ i = n + 1
      BY <1>2
    <3>4. 1..Len(ctl') = 1..(n + 1)
      BY <2>5
    <3> QED
      BY <3>1, <3>2, <3>3, <3>4 DEF Stacked
  <2>10. Housed'
    BY <1>1, <1>3, <2>6 DEF Housed
  <2>11. Balanced'
    BY <1>1, <2>3, <2>4, <2>7, PushBalance
  <2> QED
    BY <2>8, <2>9, <2>10, <2>11 DEF SlavesInv
<1> QED
  BY <1>8, <1>9

\* Rings counts with the same operator.
LEMMA SameCount == \A S : Slaves!Cardinality(S) = Cardinality(S)
BY DEF Slaves!Cardinality, Cardinality

LEMMA RemoteStep ==
  ASSUME SlavesInv, NEW str \in Strings, Slaves!MasterDostring(str)
  PROVE  SlavesInv'
<1> DEFINE n == Len(ctl)
           a == ctl[Len(ctl)].on
           r == ctl[Len(ctl)].ring
           t == caller[ctl[Len(ctl)].on]
<1>1. SlavesTypes /\ Stacked /\ Housed /\ Balanced
  BY DEF SlavesInv
<1>2. n \in Nat /\ n >= 1 /\ n \in 1..n /\ Slaves!Running = ctl[n]
  BY <1>1, RunningIs
<1>3. /\ ctl[n].kind = "slave"
      /\ UNCHANGED <<ring, open, given, environment, caller, thread>>
      /\ Slaves!Dostring("remote", t, r, a, "master", str)
  BY <1>2 DEF Slaves!MasterDostring, Slaves!CallsBack
<1>4. /\ n > 1 /\ n - 1 \in 1..n /\ r \in RingObjs /\ a \in Addrs /\ ring[r] = a
      /\ ctl[n - 1].kind # "slave" /\ t = ctl[n - 1].on
      /\ t \in Slaves!Threads /\ thread[t] = "running"
  <2>1. Placed(n)
    BY <1>1, <1>2 DEF Stacked
  <2>2. n > 1 /\ n - 1 \in 1..n
    BY <1>2, <1>3, <2>1 DEF Placed
  <2>3. Placed(n - 1)
    BY <1>1, <2>2 DEF Stacked
  <2> QED
    BY <1>3, <2>1, <2>2, <2>3 DEF Placed
<1>5. CASE UNCHANGED <<cache, ctl, height>>
  <2>1. SlavesTypes'
    BY <1>1, <1>3, <1>5 DEF SlavesTypes, Slaves!Threads
  <2>2. Stacked'
    BY <1>1, <1>3, <1>5 DEF Stacked, Placed, Slaves!Threads
  <2>3. Housed'
    BY <1>1, <1>3, <1>5 DEF Housed
  <2>4. Balanced'
    BY <1>1, <1>5, SameBalance
  <2> QED
    BY <2>1, <2>2, <2>3, <2>4 DEF SlavesInv
<1>6. CASE ~UNCHANGED <<cache, ctl, height>>
  <2>1. PICK f \in Slaves!Compiled(a, "master", str) :
          /\ cache' = [cache EXCEPT ![a]["master"] = @ \cup {f}]
          /\ ctl' = Append(ctl, Slaves!Frame("remote", t, r, f.env))
          /\ height' = [height EXCEPT ![t] = @ + 1]
    BY <1>3, <1>6 DEF Slaves!Dostring
  <2>2. f \in Code /\ f.env = given[r]
    BY <1>4, <2>1, CompiledMaster
  <2> DEFINE new == Slaves!Frame("remote", t, r, f.env)
  <2>3. new \in FrameSet /\ new.kind = "remote" /\ new.on = t /\ new.ring = r /\ new.env = given[r]
    BY <1>4, <2>2 DEF Slaves!Frame, FrameSet, Kinds4, Code
  <2>4. ctl' = Append(ctl, new)
    BY <2>1
  <2> HIDE DEF new
  <2>5. /\ ctl' \in Seq(FrameSet) /\ Len(ctl') = n + 1
        /\ \A i \in 1..n : ctl'[i] = ctl[i]
        /\ ctl'[n + 1] = new
    BY <1>1, <2>3, <2>4, PushElements
  <2>6. /\ cache' \in [Addrs -> [slave : SUBSET Code, master : SUBSET Code]]
        /\ \A b \in Addrs : cache'[b].master = IF b = a THEN cache[b].master \cup {f} ELSE cache[b].master
    BY <1>1, <1>4, <2>1, <2>2, CacheGets
  <2>7. /\ height' \in [Slaves!Threads \cup Addrs -> Int]
        /\ \A x \in Slaves!Threads \cup Addrs : height'[x] = IF x = t THEN height[x] + 1 ELSE height[x]
    BY <1>1, <1>4, <2>1 DEF SlavesTypes
  <2>8. SlavesTypes'
    <3>1. Len(ctl') >= 1
      BY <1>2, <2>5
    <3> QED
      BY <1>1, <1>3, <2>5, <2>6, <2>7, <3>1 DEF SlavesTypes, FrameSet, Slaves!Threads
  <2>9. Stacked'
    <3>1. ASSUME NEW i \in 1..n PROVE Placed(i)'
      <4>1. Placed(i) /\ \A j \in 1..i : ctl'[j] = ctl[j]
        BY <1>1, <1>2, <2>5 DEF Stacked
      <4> QED
        BY <1>2, <1>3, <4>1, PlacedKept
    <3>2. ASSUME NEW i, i = n + 1 PROVE Placed(i)'
      <4>1. /\ i > 2 /\ i # 1 /\ ctl'[i] = new
            /\ ctl'[i - 1] = ctl[n] /\ ctl'[i - 2] = ctl[n - 1]
        BY <1>2, <1>4, <2>5, <3>2
      <4> QED
        BY <1>3, <1>4, <2>3, <4>1 DEF Placed, Slaves!Threads
    <3>3. \A i \in 1..(n + 1) : i \in 1..n \/ i = n + 1
      BY <1>2
    <3>4. 1..Len(ctl') = 1..(n + 1)
      BY <2>5
    <3> QED
      BY <3>1, <3>2, <3>3, <3>4 DEF Stacked
  <2>10. Housed'
    <3>1. ASSUME NEW s \in RingObjs, ring[s] \in Addrs, NEW g \in cache'[ring[s]].master
          PROVE  g.env = given[s]
      <4>1. CASE ring[s] = a
        <5>1. s = r
          BY <1>1, <1>4, <3>1, <4>1 DEF Housed
        <5> QED
          <6>1. cache'[a].master = cache[a].master \cup {f} /\ \A h \in cache[a].master : h.env = given[r]
            BY <1>1, <1>4, <2>6 DEF Housed
          <6> QED
            BY <2>2, <3>1, <4>1, <5>1, <6>1
      <4>2. CASE ring[s] # a
        BY <1>1, <2>6, <3>1, <4>2 DEF Housed
      <4> QED
        BY <4>1, <4>2
    <3> QED
      BY <1>1, <1>3, <3>1 DEF Housed
  <2>11. Balanced'
    BY <1>1, <2>3, <2>4, <2>7, PushBalance
  <2> QED
    BY <2>8, <2>9, <2>10, <2>11 DEF SlavesInv
<1> QED
  BY <1>5, <1>6

LEMMA ResumeStep ==
  ASSUME SlavesInv, NEW t \in Coroutines, Slaves!Resume(t)
  PROVE  SlavesInv'
<1> DEFINE n == Len(ctl)
           new == Slaves!Frame("resume", t, "none", Slaves!NoEnv)
<1>1. SlavesTypes /\ Stacked /\ Housed /\ Balanced
  BY DEF SlavesInv
<1>2. n \in Nat /\ n >= 1 /\ n \in 1..n /\ Slaves!Running = ctl[n]
  BY <1>1, RunningIs
<1>3. /\ ctl[n].kind # "slave" /\ thread[t] # "running"
      /\ thread' = [thread EXCEPT ![t] = "running"]
      /\ height' = [height EXCEPT ![t] = 0]
      /\ ctl' = Append(ctl, new)
      /\ UNCHANGED <<ring, open, given, environment, caller, cache>>
  BY <1>2 DEF Slaves!Resume, Slaves!InMaster
<1>4. new \in FrameSet /\ new.kind = "resume" /\ new.on = t /\ t \in Slaves!Threads /\ t \notin Addrs
  BY Apart DEF Slaves!Frame, FrameSet, Kinds4, EnvsOrNone
<1> HIDE DEF new
<1>5. /\ ctl' \in Seq(FrameSet) /\ Len(ctl') = n + 1
      /\ \A i \in 1..n : ctl'[i] = ctl[i]
      /\ ctl'[n + 1] = new
  BY <1>1, <1>3, <1>4, PushElements
<1>6. \A s \in Slaves!Threads : thread'[s] = IF s = t THEN "running" ELSE thread[s]
  BY <1>1, <1>3 DEF SlavesTypes
<1>7. \A i \in 1..n : ctl[i].on # t
  <2>1. SUFFICES ASSUME NEW i \in 1..n PROVE ctl[i].on # t
    OBVIOUS
  <2>2. Placed(i)
    BY <1>1 DEF Stacked
  <2> QED
    BY <1>3, <1>4, <2>2 DEF Placed
<1>8. height[t] = 0
  BY <1>1, <1>4, <1>7, NoCalls
<1>9. SlavesTypes'
  <2>1. Len(ctl') >= 1
    BY <1>2, <1>5
  <2>2. thread' \in [Slaves!Threads -> {"none", "running", "suspended", "dead"}]
    BY <1>1, <1>3 DEF SlavesTypes
  <2>3. height' \in [Slaves!Threads \cup Addrs -> Int]
    <3>1. height \in [Slaves!Threads \cup Addrs -> Int] /\ height' = [height EXCEPT ![t] = 0]
      BY <1>1, <1>3 DEF SlavesTypes
    <3>2. height' = [x \in Slaves!Threads \cup Addrs |-> IF x = t THEN 0 ELSE height[x]]
      BY <3>1
    <3>3. \A x \in Slaves!Threads \cup Addrs : (IF x = t THEN 0 ELSE height[x]) \in Int
      BY <3>1
    <3> QED
      BY <3>2, <3>3
  <2>4. UNCHANGED Slaves!Threads
    BY DEF Slaves!Threads
  <2> QED
    BY <1>1, <1>3, <1>5, <2>1, <2>2, <2>3, <2>4 DEF SlavesTypes, FrameSet
<1>10. Stacked'
  <2>1. ASSUME NEW i \in 1..n PROVE Placed(i)'
    <3>1. Placed(i) /\ \A j \in 1..i : ctl'[j] = ctl[j]
      BY <1>1, <1>2, <1>5 DEF Stacked
    <3>2. ctl[i].kind # "slave" => thread'[ctl[i].on] = thread[ctl[i].on]
      BY <1>6, <1>7, <3>1 DEF Placed
    <3> QED
      BY <1>2, <1>3, <3>1, <3>2, PlacedKept
  <2>2. ASSUME NEW i, i = n + 1 PROVE Placed(i)'
    <3>1. /\ i > 1 /\ i # 1 /\ ctl'[i] = new /\ ctl'[i - 1] = ctl[n]
          /\ \A j \in 1..i - 1 : ctl'[j] = ctl[j] /\ ctl[j].on # t
      BY <1>2, <1>5, <1>7, <2>2
    <3> QED
      BY <1>3, <1>4, <1>6, <3>1 DEF Placed, Slaves!Threads
  <2>3. \A i \in 1..(n + 1) : i \in 1..n \/ i = n + 1
    BY <1>2
  <2>4. 1..Len(ctl') = 1..(n + 1)
    BY <1>5
  <2> QED
    BY <2>1, <2>2, <2>3, <2>4 DEF Stacked
<1>11. Housed'
  BY <1>1, <1>3 DEF Housed
<1>12. Balanced'
  <2>1. \A x \in Slaves!Threads \cup Addrs : height'[x] = height[x]
    BY <1>1, <1>3, <1>8 DEF SlavesTypes
  <2> QED
    BY <1>1, <1>3, <1>4, <2>1, PushBalance
<1> QED
  BY <1>9, <1>10, <1>11, <1>12 DEF SlavesInv

LEMMA ReturnStep ==
  ASSUME SlavesInv, Slaves!Return
  PROVE  SlavesInv'
<1> DEFINE n == Len(ctl)
           x == ctl[Len(ctl)].on
<1>1. SlavesTypes /\ Stacked /\ Housed /\ Balanced
  BY DEF SlavesInv
<1>2. n \in Nat /\ n >= 1 /\ n \in 1..n /\ Slaves!Running = ctl[n]
  BY <1>1, RunningIs
<1>3. PICK results \in 0..2 : height' = [height EXCEPT ![x] = Slaves!Popped(x, results)]
  BY <1>2 DEF Slaves!Return
<1>4. /\ ctl[n].kind \in {"slave", "remote"} /\ ctl' = Slaves!Front(ctl)
      /\ UNCHANGED <<ring, open, given, environment, caller, cache, thread>>
  BY <1>2 DEF Slaves!Return
<1>5. n > 1 /\ x \in Slaves!Threads \cup Addrs
  BY <1>1, <1>2, <1>4, FrameTypes DEF Stacked, Placed
<1>6. Slaves!Popped(x, results) = height[x] - 1 /\ height[x] \in Int
  BY <1>1, <1>3, <1>5 DEF Slaves!Popped, SlavesTypes
<1>7. /\ height' \in [Slaves!Threads \cup Addrs -> Int]
      /\ \A y \in Slaves!Threads \cup Addrs : height'[y] = IF y = x THEN height[y] - 1 ELSE height[y]
  BY <1>1, <1>3, <1>5, <1>6 DEF SlavesTypes
<1>8. /\ ctl' \in Seq(FrameSet) /\ Len(ctl') = n - 1
      /\ \A i \in 1..(n - 1) : ctl'[i] = ctl[i]
  BY <1>1, <1>4, <1>5, PopElements
<1>9. SlavesTypes'
  <2>1. Len(ctl') >= 1
    BY <1>2, <1>5, <1>8
  <2> QED
    BY <1>1, <1>4, <1>7, <1>8, <2>1 DEF SlavesTypes, FrameSet, Slaves!Threads
<1>10. Stacked'
  <2>1. SUFFICES ASSUME NEW i \in 1..(n - 1) PROVE Placed(i)'
    BY <1>8 DEF Stacked
  <2>2. i \in 1..n /\ Placed(i) /\ \A j \in 1..i : ctl'[j] = ctl[j]
    BY <1>1, <1>2, <1>8 DEF Stacked
  <2> QED
    BY <1>2, <1>4, <2>2, PlacedKept
<1>11. Housed'
  BY <1>1, <1>4 DEF Housed
<1>12. Balanced'
  BY <1>1, <1>4, <1>5, <1>7, PopBalance
<1> QED
  BY <1>9, <1>10, <1>11, <1>12 DEF SlavesInv

LEMMA LeaveStep ==
  ASSUME SlavesInv, Slaves!Leave
  PROVE  SlavesInv'
<1> DEFINE n == Len(ctl)
           t == ctl[Len(ctl)].on
<1>1. SlavesTypes /\ Stacked /\ Housed /\ Balanced
  BY DEF SlavesInv
<1>2. n \in Nat /\ n >= 1 /\ n \in 1..n /\ Slaves!Running = ctl[n]
  BY <1>1, RunningIs
<1>3. PICK status \in {"suspended", "dead"} : thread' = [thread EXCEPT ![t] = status]
  BY <1>2 DEF Slaves!Leave
<1>4. /\ ctl[n].kind = "resume" /\ ctl' = Slaves!Front(ctl)
      /\ UNCHANGED <<ring, open, given, environment, caller, cache, height>>
  BY <1>2 DEF Slaves!Leave
<1>5. n > 1 /\ t \in Coroutines /\ \A i \in 1..(n - 1) : ctl[i].on # t
  <2>1. Placed(n)
    BY <1>1, <1>2 DEF Stacked
  <2> QED
    BY <1>4, <2>1 DEF Placed
<1>6. /\ thread' \in [Slaves!Threads -> {"none", "running", "suspended", "dead"}]
      /\ \A s \in Slaves!Threads : s # t => thread'[s] = thread[s]
  BY <1>1, <1>3 DEF SlavesTypes
<1>7. /\ ctl' \in Seq(FrameSet) /\ Len(ctl') = n - 1
      /\ \A i \in 1..(n - 1) : ctl'[i] = ctl[i]
  BY <1>1, <1>4, <1>5, PopElements
<1>8. SlavesTypes'
  <2>1. Len(ctl') >= 1
    BY <1>2, <1>5, <1>7
  <2> QED
    BY <1>1, <1>4, <1>6, <1>7, <2>1 DEF SlavesTypes, FrameSet, Slaves!Threads
<1>9. Stacked'
  <2>1. SUFFICES ASSUME NEW i \in 1..(n - 1) PROVE Placed(i)'
    BY <1>7 DEF Stacked
  <2>2. i \in 1..n /\ Placed(i) /\ ctl[i].on # t /\ \A j \in 1..i : ctl'[j] = ctl[j]
    BY <1>1, <1>2, <1>5, <1>7 DEF Stacked
  <2>3. ctl[i].kind # "slave" => thread'[ctl[i].on] = thread[ctl[i].on]
    BY <1>6, <2>2 DEF Placed
  <2> QED
    BY <1>2, <1>4, <2>2, <2>3, PlacedKept
<1>10. Housed'
  BY <1>1, <1>4 DEF Housed
<1>11. Balanced'
  <2>1. \A y \in Slaves!Threads \cup Addrs : height'[y] = height[y]
    BY <1>4
  <2> QED
    BY <1>1, <1>4, <1>5, <2>1, PopBalance
<1> QED
  BY <1>8, <1>9, <1>10, <1>11 DEF SlavesInv

LEMMA UnreachableStep ==
  ASSUME SlavesInv, NEW t \in Coroutines, Slaves!Unreachable(t)
  PROVE  SlavesInv'
<1>1. SlavesTypes /\ Stacked /\ Housed /\ Balanced
  BY DEF SlavesInv
<1>2. /\ thread[t] # "running" /\ thread' = [thread EXCEPT ![t] = "none"]
      /\ UNCHANGED <<ring, open, given, environment, caller, cache, height, ctl>>
  BY DEF Slaves!Unreachable
<1>3. /\ thread' \in [Slaves!Threads -> {"none", "running", "suspended", "dead"}]
      /\ \A s \in Slaves!Threads : s # t => thread'[s] = thread[s]
  BY <1>1, <1>2 DEF SlavesTypes
<1>4. SlavesTypes'
  BY <1>1, <1>2, <1>3 DEF SlavesTypes, Slaves!Threads
<1>5. Stacked'
  <2>1. SUFFICES ASSUME NEW i \in 1..Len(ctl) PROVE Placed(i)'
    BY <1>2 DEF Stacked
  <2>2. Placed(i) /\ Len(ctl) \in Nat
    BY <1>1, RunningIs DEF Stacked
  <2>3. ctl[i].kind # "slave" => thread'[ctl[i].on] = thread[ctl[i].on]
    BY <1>2, <1>3, <2>2 DEF Placed
  <2> QED
    BY <1>2, <2>2, <2>3, PlacedKept
<1>6. Housed'
  BY <1>1, <1>2 DEF Housed
<1>7. Balanced'
  BY <1>1, <1>2, SameBalance
<1> QED
  BY <1>4, <1>5, <1>6, <1>7 DEF SlavesInv

LEMMA ForgetStep ==
  ASSUME SlavesInv, NEW a \in Addrs, NEW side \in {"slave", "master"}, Slaves!Forget(a, side)
  PROVE  SlavesInv'
<1>1. SlavesTypes /\ Stacked /\ Housed /\ Balanced
  BY DEF SlavesInv
<1>2. PICK f \in cache[a][side] : cache' = [cache EXCEPT ![a][side] = @ \ {f}]
  BY DEF Slaves!Forget
<1>3. UNCHANGED <<ring, open, given, environment, caller, thread, height, ctl>>
  BY DEF Slaves!Forget
<1>4. /\ cache' \in [Addrs -> [slave : SUBSET Code, master : SUBSET Code]]
      /\ \A b \in Addrs : cache'[b].master \subseteq cache[b].master
  <2>1. cache \in [Addrs -> [slave : SUBSET Code, master : SUBSET Code]]
    BY <1>1 DEF SlavesTypes
  <2>2. CASE side = "slave"
    BY <1>2, <2>1, <2>2
  <2>3. CASE side = "master"
    BY <1>2, <2>1, <2>3
  <2> QED
    BY <2>2, <2>3
<1>5. SlavesTypes'
  BY <1>1, <1>3, <1>4 DEF SlavesTypes, Slaves!Threads
<1>6. Stacked'
  BY <1>1, <1>3 DEF Stacked, Placed, Slaves!Threads
<1>7. Housed'
  BY <1>1, <1>3, <1>4 DEF Housed
<1>8. Balanced'
  BY <1>1, <1>3, SameBalance
<1> QED
  BY <1>5, <1>6, <1>7, <1>8 DEF SlavesInv
-----------------------------------------------------------------------------
LEMMA SlavesStart == MCInit => SlavesInv
<1> SUFFICES ASSUME MCInit PROVE SlavesInv
  OBVIOUS
<1>1. /\ ring = [r \in RingObjs |-> "none"] /\ open = {} /\ given = [r \in RingObjs |-> Slaves!NoEnv]
      /\ environment = [a \in Addrs |-> Slaves!NoEnv] /\ caller = [a \in Addrs |-> "main"]
      /\ cache = [a \in Addrs |-> [slave |-> {}, master |-> {}]]
      /\ thread = [t \in Slaves!Threads |-> IF t = "main" THEN "running" ELSE "none"]
      /\ height = [x \in Slaves!Threads \cup Addrs |-> 0]
      /\ ctl = <<Slaves!Frame("master", "main", "none", Slaves!NoEnv)>>
  BY DEF MCInit, Slaves!Init
<1> DEFINE first == Slaves!Frame("master", "main", "none", Slaves!NoEnv)
<1>2. first \in FrameSet /\ first.kind = "master" /\ first.on = "main" /\ "main" \in Slaves!Threads
  BY Apart DEF Slaves!Frame, FrameSet, Kinds4, EnvsOrNone
<1>3. ctl = <<first>>
  BY <1>1
<1> HIDE DEF first
<1>4. ctl \in Seq(FrameSet) /\ Len(ctl) = 1 /\ ctl[1] = first
  BY <1>2, <1>3
<1>5. SlavesTypes
  <2>1. [slave |-> {}, master |-> {}] \in [slave : SUBSET Code, master : SUBSET Code]
    OBVIOUS
  <2>2. ctl \in Seq([kind : Kinds4, on : Slaves!Threads \cup Addrs, ring : RingObjs \cup {"none"}, env : EnvsOrNone])
    BY <1>4 DEF FrameSet
  <2> QED
    BY <1>1, <1>2, <1>4, <2>1, <2>2 DEF SlavesTypes, EnvsOrNone
<1>6. Stacked
  <2>1. \A i \in 1..Len(ctl) : i = 1
    BY <1>4
  <2>2. Placed(1)
    BY <1>1, <1>2, <1>4 DEF Placed
  <2> QED
    BY <2>1, <2>2 DEF Stacked
<1>7. Housed
  BY <1>1, Apart DEF Housed
<1>8. Balanced
  <2>1. SUFFICES ASSUME NEW x \in Slaves!Threads \cup Addrs PROVE height[x] = Cardinality(CallsOn(x))
    BY DEF Balanced
  <2>2. CallsOn(x) = {}
    BY <1>2, <1>4 DEF CallsOn
  <2> QED
    BY <1>1, <2>2, FS_EmptySet
<1> QED
  BY <1>5, <1>6, <1>7, <1>8 DEF SlavesInv

LEMMA SlavesNext ==
  ASSUME SlavesInv, Disciplined, Slaves!Next
  PROVE  SlavesInv'
<1>1. ASSUME NEW r \in RingObjs, Slaves!Close(r) PROVE SlavesInv'
  BY <1>1, CloseStep DEF Slaves!Close
<1>2. ASSUME NEW r \in RingObjs, Slaves!Collected(r) PROVE SlavesInv'
  BY <1>2, CloseStep DEF Slaves!Collected
<1> QED
  BY <1>1, <1>2, NewStep, EnterStep, RemoteStep, ReturnStep, LeaveStep, ResumeStep, UnreachableStep, ForgetStep
  DEF Slaves!Next

\* The frames, rings, caches and heights of the slaves as long as scripts keep to what
\* Disciplined asks of them.
THEOREM SlavesInvariant == ASSUME Disciplined PROVE MCSpec => []SlavesInv
<1>1. ASSUME SlavesInv, [MCNext]_<<part, vars, ring, open, given, environment, caller, cache, thread, height, ctl,
                                   obj, sys, clock, call>>
      PROVE  SlavesInv'
  <2>1. CASE Slaves!Next
    BY <1>1, <2>1, SlavesNext
  <2>2. CASE UNCHANGED <<ring, open, given, environment, caller, cache, thread, height, ctl>>
    <3>1. SlavesTypes' /\ Stacked' /\ Housed'
      BY <1>1, <2>2 DEF SlavesInv, SlavesTypes, Stacked, Placed, Housed, Slaves!Threads
    <3>2. Balanced'
      BY <1>1, <2>2, SameBalance DEF SlavesInv
    <3> QED
      BY <3>1, <3>2 DEF SlavesInv
  <2> QED
    BY <1>1, <2>1, <2>2 DEF MCNext, Still
<1> QED
  BY <1>1, SlavesStart, PTL DEF MCSpec

\* A string that a slave gives to remotedostring runs on the thread that waits for the slave
\* and in the environment its ring was created with, whichever coroutines and rings came and
\* went before, and the stacks hold what the active calls put there (rings.c:88-157, 170-262).
THEOREM SlavesRunInPlace == ASSUME Disciplined PROVE MCSpec => []RunsInPlace
<1>1. SlavesInv => Slaves!RunsForCaller
  <2>1. SUFFICES ASSUME SlavesInv, NEW i \in Slaves!Frames("remote")
                 PROVE  /\ ctl[i].on = ctl[i - 2].on /\ thread[ctl[i].on] = "running"
                        /\ ctl[i].env = given[ctl[i].ring]
    BY DEF Slaves!RunsForCaller
  <2>2. i \in 1..Len(ctl) /\ ctl[i].kind = "remote"
    BY <2>1 DEF Slaves!Frames, SlavesInv, SlavesTypes
  <2>3. Placed(i)
    BY <2>1, <2>2 DEF SlavesInv, Stacked
  <2> QED
    BY <2>2, <2>3 DEF Placed
<1>2. SlavesInv => Slaves!InBalance
  <2> SUFFICES ASSUME SlavesInv PROVE Slaves!InBalance
    OBVIOUS
  <2>1. DOMAIN ctl = 1..Len(ctl)
    BY DEF SlavesInv, SlavesTypes
  <2>2. ASSUME NEW x \in Slaves!Threads \cup Addrs
        PROVE  height[x] = Slaves!Cardinality({i \in Slaves!Frames("slave") \cup Slaves!Frames("remote") : ctl[i].on = x})
    <3>1. CallsOn(x) = {i \in Slaves!Frames("slave") \cup Slaves!Frames("remote") : ctl[i].on = x}
      BY <2>1 DEF CallsOn, Slaves!Frames
    <3> QED
      BY <3>1, SameCount DEF SlavesInv, Balanced
  <2>3. ASSUME NEW i \in Slaves!Frames("slave")
        PROVE  ctl[i].on \in open /\ ring[ctl[i].ring] = ctl[i].on
    <3>1. Placed(i) /\ ctl[i].kind = "slave"
      BY <2>1 DEF SlavesInv, Stacked, Slaves!Frames
    <3> QED
      BY <3>1 DEF SlavesInv, Housed, Placed
  <2> QED
    BY <2>2, <2>3 DEF Slaves!InBalance
<1>3. SlavesInv => RunsInPlace
  BY <1>1, <1>2 DEF RunsInPlace
<1> QED
  BY <1>3, SlavesInvariant, PTL
-----------------------------------------------------------------------------
(* Sockets: whose a system socket is, and how long a call takes.           *)

Classes == {"none", "tcp{master}", "tcp{client}", "tcp{server}", "udp{unconnected}", "udp{connected}"}
ObjSet == [class : Classes, sock : Fds \cup {0}, block : Int, total : Int, dirty : BOOLEAN]
SysSet == [st : {"free", "new", "listening", "connecting", "connected", "failed"}, kind : {"tcp", "udp"},
           pending : Int, gone : BOOLEAN, eof : BOOLEAN, room : BOOLEAN]
CallSet == [op : Net!Ops \cup {"none", "select"}, o : SUBSET Objs, w : SUBSET Objs,
            pc : {"idle", "try", "wait", "done"}, since : Int, deadline : Int,
            res : {"none", "done", "error", "closed", "timeout"}, got : SUBSET Objs, put : SUBSET Objs]

NetTypes == obj \in [Objs -> ObjSet] /\ sys \in [Fds -> SysSet] /\ clock \in Nat /\ call \in CallSet

\* Every open system socket is one object's, and no object has a closed one.
OneEach ==
  /\ \A o, p \in Objs : obj[o].sock = obj[p].sock /\ obj[o].sock # 0 => o = p
  /\ \A o \in Objs : obj[o].sock # 0 => sys[obj[o].sock].st # "free"
  /\ \A f \in Fds : sys[f].st # "free" => \E o \in Objs : obj[o].sock = f
  /\ \A o \in Objs : obj[o].class = "none" => obj[o].sock = 0

\* The call of an object o: how much time it may take, and until when it waits.
InTime(o) ==
  /\ obj[o].total >= 0 => clock <= obj[o].total
  /\ call.pc = "wait" =>
       /\ obj[o].block >= 0 => call.deadline # -1 /\ call.deadline - call.since <= obj[o].block
       /\ obj[o].total >= 0 => call.deadline # -1 /\ call.deadline <= obj[o].total
       /\ call.deadline # -1 =>
            /\ clock <= call.deadline
            /\ call.deadline - call.since = obj[o].block \/ call.deadline = obj[o].total

Calling ==
  /\ call.pc = "idle" => clock = 0
  /\ call.pc # "idle" /\ call.op # "select" =>
       \E o \in Objs : /\ call.o = {o} /\ call.op \in Net!Ops /\ obj[o].class # "none" /\ InTime(o)
                       /\ call.pc \in {"try", "wait"} => obj[o].sock # 0
  /\ call.pc = "wait" /\ call.op = "select" =>
       /\ call.got = {} /\ \A o \in call.o : obj[o].class # "none"
       /\ Net!Dirty(call.o) # {} => clock = 0 /\ call.deadline = 0

SocketsInv == NetTypes /\ OneEach /\ Calling
-----------------------------------------------------------------------------
LEMMA FdsPositive == \A f \in Fds : f # 0
BY NetAssumption DEF Net!SocketsAssumption

LEMMA ObjTypes ==
  ASSUME NetTypes, NEW o \in Objs
  PROVE  /\ obj[o] \in ObjSet /\ obj[o].class \in Classes /\ obj[o].sock \in Fds \cup {0}
         /\ obj[o].block \in Int /\ obj[o].total \in Int /\ obj[o].dirty \in BOOLEAN
<1>1. obj[o] \in ObjSet
  BY DEF NetTypes
<1> QED
  BY <1>1 DEF ObjSet

LEMMA SysTypes ==
  ASSUME NetTypes, NEW f \in Fds
  PROVE  /\ sys[f] \in SysSet /\ sys[f].pending \in Int
         /\ sys[f].st \in {"free", "new", "listening", "connecting", "connected", "failed"}
<1>1. sys[f] \in SysSet
  BY DEF NetTypes
<1> QED
  BY <1>1 DEF SysSet

LEMMA CallTypes ==
  ASSUME NetTypes
  PROVE  /\ call.op \in Net!Ops \cup {"none", "select"} /\ call.o \subseteq Objs /\ call.w \subseteq Objs
         /\ call.pc \in {"idle", "try", "wait", "done"} /\ call.since \in Int /\ call.deadline \in Int
BY DEF NetTypes, CallSet

LEMMA NewIs ==
  ASSUME NEW class \in Classes, NEW f \in Fds
  PROVE  Net!New(class, f) \in ObjSet /\ Net!New(class, f).class = class /\ Net!New(class, f).sock = f
<1>1. "none" \in Classes
  BY DEF Classes
<1>2. Net!NoObj \in ObjSet
  BY <1>1 DEF Net!NoObj, Net!NoSock, ObjSet
<1>3. Net!New(class, f) = [[Net!NoObj EXCEPT !.class = class] EXCEPT !.sock = f]
  BY DEF Net!New
<1> QED
  BY <1>2, <1>3 DEF ObjSet

LEMMA FreshIs ==
  ASSUME NEW kind \in {"tcp", "udp"}
  PROVE  Net!Fresh(kind) \in SysSet /\ Net!Fresh(kind).st = "new" /\ Net!Free \in SysSet /\ Net!Free.st = "free"
<1>1. Net!Free \in SysSet /\ Net!Free.st = "free"
  BY DEF Net!Free, SysSet
<1>2. Net!Fresh(kind) = [[[Net!Free EXCEPT !.st = "new"] EXCEPT !.kind = kind] EXCEPT !.room = TRUE]
  BY DEF Net!Fresh
<1> QED
  BY <1>1, <1>2 DEF SysSet

\* Whose sockets are whose stays; an object gets a socket nobody has; it loses its own.
LEMMA NoneMoves ==
  ASSUME OneEach,
         \A o \in Objs : obj'[o].sock = obj[o].sock /\ (obj'[o].class = "none" => obj[o].sock = 0),
         \A f \in Fds : sys'[f].st = "free" <=> sys[f].st = "free",
         \A o \in Objs : obj[o].sock \in Fds \cup {0}
  PROVE  OneEach'
BY DEF OneEach

LEMMA OneGets ==
  ASSUME OneEach, NEW o \in Objs, NEW f \in Fds, sys[f].st = "free", obj[o].sock = 0,
         obj'[o].sock = f, obj'[o].class # "none",
         \A p \in Objs : p # o => obj'[p].sock = obj[p].sock /\ (obj'[p].class = "none" => obj[p].sock = 0),
         sys'[f].st # "free", \A g \in Fds : g # f => (sys'[g].st = "free" <=> sys[g].st = "free"),
         \A p \in Objs : obj[p].sock \in Fds \cup {0}
  PROVE  OneEach'
BY FdsPositive DEF OneEach

LEMMA OneLoses ==
  ASSUME OneEach, NEW o \in Objs, obj'[o].sock = 0,
         \A p \in Objs : p # o => obj'[p].sock = obj[p].sock /\ obj'[p].class = obj[p].class,
         \A g \in Fds : sys'[g].st = "free" <=> sys[g].st = "free" \/ g = obj[o].sock,
         \A p \in Objs : obj[p].sock \in Fds \cup {0}
  PROVE  OneEach'
BY FdsPositive DEF OneEach

\* A change to one object, or to one system socket.
LEMMA ObjSets ==
  ASSUME NetTypes, NEW o \in Objs, NEW x \in ObjSet, obj' = [obj EXCEPT ![o] = x]
  PROVE  obj' \in [Objs -> ObjSet] /\ \A p \in Objs : obj'[p] = IF p = o THEN x ELSE obj[p]
BY DEF NetTypes

LEMMA SysSets ==
  ASSUME NetTypes, NEW f \in Fds, NEW s \in SysSet, sys' = [sys EXCEPT ![f] = s]
  PROVE  sys' \in [Fds -> SysSet] /\ \A g \in Fds : sys'[g] = IF g = f THEN s ELSE sys[g]
BY DEF NetTypes

\* Calls that return at once leave no call in progress.
LEMMA StaysIdle ==
  ASSUME Calling, call.pc = "idle", clock' = clock, call' = call
  PROVE  Calling'
BY DEF Calling
-----------------------------------------------------------------------------
LEMMA CreateStep ==
  ASSUME SocketsInv, NEW o \in Objs, NEW kind \in Kinds, Net!Create(o, kind)
  PROVE  SocketsInv'
<1>1. NetTypes /\ OneEach /\ Calling
  BY DEF SocketsInv
<1>2. PICK f \in Fds \ Net!OpenSocks :
        /\ sys' = [sys EXCEPT ![f] = Net!Fresh(kind)]
        /\ obj' = [obj EXCEPT ![o] = IF kind = "tcp" THEN Net!CreatedTcp(f) ELSE Net!CreatedUdp(f)]
  BY DEF Net!Create
<1>3. call.pc = "idle" /\ obj[o].class = "none" /\ clock' = clock /\ call' = call
  BY DEF Net!Create, Net!Quick
<1>4. kind \in {"tcp", "udp"}
  BY NetAssumption DEF Net!SocketsAssumption
<1> DEFINE x == IF kind = "tcp" THEN Net!CreatedTcp(f) ELSE Net!CreatedUdp(f)
           s == Net!Fresh(kind)
<1>5. x \in ObjSet /\ x.class # "none" /\ x.sock = f
  BY NewIs DEF Net!CreatedTcp, Net!CreatedUdp, Classes
<1>6. s \in SysSet /\ s.st # "free" /\ sys[f].st = "free" /\ f \in Fds
  BY <1>2, <1>4, FreshIs DEF Net!OpenSocks
<1>7. obj' = [obj EXCEPT ![o] = x] /\ sys' = [sys EXCEPT ![f] = s]
  BY <1>2
<1> HIDE DEF x, s
<1>8. obj' \in [Objs -> ObjSet] /\ \A p \in Objs : obj'[p] = IF p = o THEN x ELSE obj[p]
  BY <1>1, <1>5, <1>7, ObjSets
<1>9. sys' \in [Fds -> SysSet] /\ \A g \in Fds : sys'[g] = IF g = f THEN s ELSE sys[g]
  BY <1>1, <1>6, <1>7, SysSets
<1>10. obj[o].sock = 0
  BY <1>1, <1>3 DEF OneEach
<1>11. OneEach'
  <2>1. \A p \in Objs : p # o => obj'[p].sock = obj[p].sock /\ (obj'[p].class = "none" => obj[p].sock = 0)
    BY <1>1, <1>8 DEF OneEach
  <2> QED
    BY <1>1, <1>5, <1>6, <1>8, <1>9, <1>10, <2>1, OneGets, ObjTypes
<1> QED
  BY <1>1, <1>3, <1>8, <1>9, <1>11, StaysIdle DEF SocketsInv, NetTypes

\* The end of a socket, the object staying or going.
LEMMA Destroying ==
  ASSUME SocketsInv, NEW o \in Objs, call.pc = "idle", UNCHANGED <<clock, call>>,
         sys' = Net!Destroyed(Net!Sock(o)), NEW x \in ObjSet, x.sock = 0, obj' = [obj EXCEPT ![o] = x]
  PROVE  SocketsInv'
<1>1. NetTypes /\ OneEach /\ Calling
  BY DEF SocketsInv
<1>2. obj' \in [Objs -> ObjSet] /\ \A p \in Objs : obj'[p] = IF p = o THEN x ELSE obj[p]
  BY <1>1, ObjSets
<1>3. sys' \in [Fds -> SysSet] /\ \A g \in Fds : sys'[g] = IF g = obj[o].sock THEN Net!Free ELSE sys[g]
  <2>1. CASE obj[o].sock = 0
    BY <1>1, <2>1, FdsPositive DEF Net!Destroyed, Net!Sock, Net!NoSock, NetTypes
  <2>2. CASE obj[o].sock # 0
    <3>1. obj[o].sock \in Fds /\ sys' = [sys EXCEPT ![obj[o].sock] = Net!Free]
      BY <1>1, <2>2, ObjTypes DEF Net!Destroyed, Net!Sock, Net!NoSock
    <3> QED
      BY <1>1, <3>1, SysSets, FreshIs
  <2> QED
    BY <2>1, <2>2
<1>4. OneEach'
  <2>1. \A g \in Fds : sys'[g].st = "free" <=> sys[g].st = "free" \/ g = obj[o].sock
    BY <1>3, FreshIs
  <2> QED
    BY <1>1, <1>2, <2>1, OneLoses, ObjTypes
<1> QED
  BY <1>1, <1>2, <1>3, <1>4, StaysIdle DEF SocketsInv, NetTypes

\* A step that changes no more of one object than its class, timeouts or buffer, and no more
\* of one system socket than what it is doing.
LEMMA Adjusting ==
  ASSUME SocketsInv, NEW o \in Objs, NEW x \in ObjSet, obj' = [obj EXCEPT ![o] = x],
         x.sock = obj[o].sock, x.class = "none" => obj[o].sock = 0,
         \/ sys' = sys
         \/ \E f \in Fds, s \in SysSet : sys' = [sys EXCEPT ![f] = s] /\ s.st # "free" /\ sys[f].st # "free"
  PROVE  /\ obj' \in [Objs -> ObjSet] /\ sys' \in [Fds -> SysSet]
         /\ \A p \in Objs : obj'[p] = IF p = o THEN x ELSE obj[p]
         /\ OneEach'
<1>1. NetTypes /\ OneEach
  BY DEF SocketsInv
<1>2. obj' \in [Objs -> ObjSet] /\ \A p \in Objs : obj'[p] = IF p = o THEN x ELSE obj[p]
  BY <1>1, ObjSets
<1>3. sys' \in [Fds -> SysSet] /\ \A g \in Fds : sys'[g].st = "free" <=> sys[g].st = "free"
  <2>1. CASE sys' = sys
    BY <1>1, <2>1 DEF NetTypes
  <2>2. CASE sys' # sys
    <3>1. PICK f \in Fds, s \in SysSet : sys' = [sys EXCEPT ![f] = s] /\ s.st # "free" /\ sys[f].st # "free"
      BY <2>2
    <3> QED
      BY <1>1, <3>1, SysSets
  <2> QED
    BY <2>1, <2>2
<1>4. OneEach'
  <2>1. \A p \in Objs : obj'[p].sock = obj[p].sock /\ (obj'[p].class = "none" => obj[p].sock = 0)
    BY <1>1, <1>2 DEF OneEach
  <2> QED
    BY <1>1, <1>3, <2>1, NoneMoves, ObjTypes
<1> QED
  BY <1>2, <1>3, <1>4

LEMMA CloseSockStep ==
  ASSUME SocketsInv, NEW o \in Objs, Net!Close(o)
  PROVE  SocketsInv'
<1>1. /\ call.pc = "idle" /\ UNCHANGED <<clock, call>> /\ sys' = Net!Destroyed(Net!Sock(o))
      /\ obj' = [obj EXCEPT ![o].sock = 0] \/ obj' = [obj EXCEPT ![o] = Net!NoObj]
  BY DEF Net!Close, Net!Quick, Net!NoSock
<1>2. CASE obj' = [obj EXCEPT ![o].sock = 0]
  <2> DEFINE x == [obj[o] EXCEPT !.sock = 0]
  <2>1. x \in ObjSet /\ x.sock = 0
    BY ObjTypes DEF SocketsInv, ObjSet
  <2>2. obj' = [obj EXCEPT ![o] = x]
    BY <1>2
  <2> HIDE DEF x
  <2> QED
    BY <1>1, <2>1, <2>2, Destroying
<1>3. CASE obj' = [obj EXCEPT ![o] = Net!NoObj]
  <2>1. Net!NoObj \in ObjSet /\ Net!NoObj.sock = 0
    BY DEF Net!NoObj, Net!NoSock, ObjSet, Classes
  <2> QED
    BY <1>1, <1>3, <2>1, Destroying
<1> QED
  BY <1>1, <1>2, <1>3

LEMMA BindStep ==
  ASSUME SocketsInv, NEW o \in Objs, Net!Bind(o)
  PROVE  SocketsInv'
<1>1. NetTypes /\ OneEach /\ Calling /\ call.pc = "idle" /\ UNCHANGED <<clock, call>>
  BY DEF SocketsInv, Net!Bind, Net!Quick
<1>2. CASE Net!Sock(o) # Net!NoSock /\ sys' = Net!Between(Net!Sock(o), sys[Net!Sock(o)]) /\ UNCHANGED obj
  <2>1. sys' = sys
    BY <1>1, <1>2 DEF Net!Between, NetTypes
  <2> QED
    BY <1>1, <1>2, <2>1 DEF SocketsInv, NetTypes, OneEach, Calling
<1>3. CASE sys' = Net!Released(Net!Sock(o)) /\ obj' = [obj EXCEPT ![o].sock = Net!NoSock]
  <2> DEFINE x == [obj[o] EXCEPT !.sock = 0]
  <2>1. x \in ObjSet /\ x.sock = 0
    BY <1>1, ObjTypes DEF ObjSet
  <2>2. obj' = [obj EXCEPT ![o] = x] /\ sys' = Net!Destroyed(Net!Sock(o))
    BY <1>3 DEF Net!NoSock, Net!Released
  <2> HIDE DEF x
  <2> QED
    BY <1>1, <2>1, <2>2, Destroying
<1>4. CASE UNCHANGED <<obj, sys>>
  BY <1>1, <1>4 DEF SocketsInv, NetTypes, OneEach, Calling
<1> QED
  BY <1>2, <1>3, <1>4 DEF Net!Bind

LEMMA ListenStep ==
  ASSUME SocketsInv, NEW o \in Objs, Net!Listen(o)
  PROVE  SocketsInv'
<1>1. NetTypes /\ OneEach /\ Calling /\ call.pc = "idle" /\ UNCHANGED <<clock, call>> /\ obj[o].sock \in Fds
  BY ObjTypes DEF SocketsInv, Net!Listen, Net!Quick, Net!Sock, Net!NoSock
<1> DEFINE f == obj[o].sock
<1>2. CASE /\ sys' = Net!Between(Net!Sock(o), [sys[Net!Sock(o)] EXCEPT !.st = "listening"])
           /\ obj' = [obj EXCEPT ![o].class = "tcp{server}"]
  <2> DEFINE x == [obj[o] EXCEPT !.class = "tcp{server}"]
             s == [sys[f] EXCEPT !.st = "listening"]
  <2>1. x \in ObjSet /\ x.sock = obj[o].sock /\ x.class # "none"
    BY <1>1, ObjTypes DEF ObjSet, Classes
  <2>2. s \in SysSet /\ s.st # "free" /\ sys[f].st # "free"
    BY <1>1, SysTypes, FdsPositive DEF SysSet, OneEach
  <2>3. obj' = [obj EXCEPT ![o] = x] /\ sys' = [sys EXCEPT ![f] = s]
    BY <1>2 DEF Net!Between, Net!Sock
  <2> HIDE DEF x, s
  <2>4. obj' \in [Objs -> ObjSet] /\ sys' \in [Fds -> SysSet] /\ OneEach'
    BY <1>1, <2>1, <2>2, <2>3, Adjusting
  <2> QED
    BY <1>1, <2>4, StaysIdle DEF SocketsInv, NetTypes
<1>3. CASE sys' = Net!Between(Net!Sock(o), sys[Net!Sock(o)]) /\ UNCHANGED obj
  <2>1. sys' = sys
    BY <1>1, <1>3 DEF Net!Between, NetTypes
  <2> QED
    BY <1>1, <1>3, <2>1 DEF SocketsInv, NetTypes, OneEach, Calling
<1> QED
  BY <1>2, <1>3 DEF Net!Listen

\* A system socket that stays open, and no object, changes.
LEMMA SysChanges ==
  ASSUME NetTypes, OneEach, NEW f \in Fds, NEW s \in SysSet, s.st # "free", sys[f].st # "free",
         sys' = [sys EXCEPT ![f] = s], obj' = obj
  PROVE  obj' \in [Objs -> ObjSet] /\ sys' \in [Fds -> SysSet] /\ OneEach'
<1>1. sys' \in [Fds -> SysSet] /\ \A g \in Fds : sys'[g] = IF g = f THEN s ELSE sys[g]
  BY SysSets
<1>2. \A o \in Objs : obj'[o].sock = obj[o].sock /\ (obj'[o].class = "none" => obj[o].sock = 0)
  BY DEF OneEach
<1> QED
  BY <1>1, <1>2, NoneMoves, ObjTypes DEF NetTypes

LEMMA ShutdownStep ==
  ASSUME SocketsInv, NEW o \in Objs, Net!Shutdown(o)
  PROVE  SocketsInv'
<1>1. NetTypes /\ OneEach /\ Calling /\ call.pc = "idle" /\ UNCHANGED <<obj, clock, call>> /\ obj[o].sock \in Fds
  BY ObjTypes DEF SocketsInv, Net!Shutdown, Net!Quick, Net!Sock, Net!NoSock
<1> DEFINE f == obj[o].sock
           s == [sys[f] EXCEPT !.eof = TRUE]
<1>2. s \in SysSet /\ s.st # "free" /\ sys[f].st # "free"
  BY <1>1, SysTypes, FdsPositive DEF SysSet, OneEach
<1>3. sys' = [sys EXCEPT ![f] = s]
  BY DEF Net!Shutdown, Net!Between, Net!Sock
<1> HIDE DEF s
<1>4. obj' \in [Objs -> ObjSet] /\ sys' \in [Fds -> SysSet] /\ OneEach'
  BY <1>1, <1>2, <1>3, SysChanges
<1> QED
  BY <1>1, <1>4, StaysIdle DEF SocketsInv, NetTypes

LEMMA SetTimeoutStep ==
  ASSUME SocketsInv, NEW o \in Objs, Net!SetTimeout(o)
  PROVE  SocketsInv'
<1>1. NetTypes /\ OneEach /\ Calling /\ call.pc = "idle" /\ UNCHANGED <<sys, clock, call>> /\ obj[o].class # "none"
  BY DEF SocketsInv, Net!SetTimeout, Net!Quick
<1>2. PICK t \in Int : obj' = [obj EXCEPT ![o].block = t] \/ obj' = [obj EXCEPT ![o].total = t]
  BY NetAssumption DEF Net!SetTimeout, Net!SocketsAssumption
<1>3. PICK x \in ObjSet : obj' = [obj EXCEPT ![o] = x] /\ x.sock = obj[o].sock /\ x.class # "none"
  <2>1. [obj[o] EXCEPT !.block = t] \in ObjSet /\ [obj[o] EXCEPT !.total = t] \in ObjSet
    BY <1>1, ObjTypes DEF ObjSet
  <2>2. /\ [obj[o] EXCEPT !.block = t].sock = obj[o].sock /\ [obj[o] EXCEPT !.total = t].sock = obj[o].sock
        /\ [obj[o] EXCEPT !.block = t].class = obj[o].class /\ [obj[o] EXCEPT !.total = t].class = obj[o].class
    BY <1>1, ObjTypes DEF ObjSet
  <2> QED
    BY <1>1, <1>2, <2>1, <2>2
<1>4. obj' \in [Objs -> ObjSet] /\ sys' \in [Fds -> SysSet] /\ OneEach'
  BY <1>1, <1>3, Adjusting
<1> QED
  BY <1>1, <1>4, StaysIdle DEF SocketsInv, NetTypes
-----------------------------------------------------------------------------
(* Calls that take time.                                                   *)

LEMMA IdleIs ==
  /\ Net!Idle \in CallSet /\ Net!Idle.pc = "idle" /\ Net!Idle.got = {}
BY DEF Net!Idle, CallSet

LEMMA ReturnIs ==
  ASSUME NEW c \in CallSet, NEW res \in {"done", "error", "closed", "timeout"}
  PROVE  /\ Net!Return(c, res) \in CallSet /\ Net!Return(c, res).pc = "done"
         /\ Net!Return(c, res).op = c.op /\ Net!Return(c, res).o = c.o /\ Net!Return(c, res).res = res
BY DEF Net!Return, CallSet

LEMMA SelfIs ==
  ASSUME NEW o, call.o = {o}
  PROVE  Net!Self = o /\ Net!Object = obj[o]
BY DEF Net!Self, Net!Object

\* What a system call leaves of a socket.
LEMMA SystemFacts ==
  ASSUME NEW op \in Net!Ops, NEW s \in SysSet, s.st # "free", NEW out \in Net!System(op, s)
  PROVE  /\ out.s \in SysSet /\ out.s.st # "free"
         /\ out.r \in {"done", "error", "closed", "aborted", "would block"}
<1> DEFINE told == [s EXCEPT !.gone = FALSE]
           less == [s EXCEPT !.pending = @ - 1]
           peer == [s EXCEPT !.st = "connected"]
           soon == [s EXCEPT !.st = "connecting"]
           full == [s EXCEPT !.room = FALSE]
<1>0. s.pending \in Int /\ s.st \in {"new", "listening", "connecting", "connected", "failed"}
  BY DEF SysSet
<1>1. /\ told \in SysSet /\ told.st = s.st
      /\ peer \in SysSet /\ peer.st = "connected"
      /\ soon \in SysSet /\ soon.st = "connecting"
      /\ full \in SysSet /\ full.st = s.st
  BY DEF SysSet
<1>2. less \in SysSet /\ less.st = s.st
  <2> DEFINE n == s.pending - 1
  <2>1. n \in Int
    BY <1>0
  <2> HIDE DEF n
  <2>2. [s EXCEPT !.pending = n] \in SysSet /\ [s EXCEPT !.pending = n].st = s.st
    BY <2>1 DEF SysSet
  <2> QED
    BY <2>2 DEF n
<1> DEFINE Results == {"done", "error", "closed", "aborted", "would block"}
<1>3. \E r \in Results, x \in {s, told, less, peer, soon, full} : out = Net!Out(r, x)
  <2> HIDE DEF told, less, peer, soon, full
  <2>1. CASE op = "accept"
    BY <2>1 DEF Net!System, told, less
  <2>2. CASE op \in {"connect", "setpeername"}
    BY <2>2 DEF Net!System, peer, soon
  <2>3. CASE op \in {"receive", "receivefrom"}
    BY <2>3 DEF Net!System, less
  <2>4. CASE op \in {"send", "sendto"}
    BY <2>4 DEF Net!System, full
  <2> QED
    BY <2>1, <2>2, <2>3, <2>4 DEF Net!Ops
<1>4. PICK r \in Results, x \in {s, told, less, peer, soon, full} : out = Net!Out(r, x)
  BY <1>3
<1>5. x \in SysSet /\ x.st # "free"
  <2> HIDE DEF told, less, peer, soon, full
  <2> QED
    BY <1>0, <1>1, <1>2
<1> HIDE DEF told, less, peer, soon, full
<1>6. out.r = r /\ out.s = x
  BY <1>4 DEF Net!Out
<1> QED
  BY <1>5, <1>6

\* The time until which a call waits: what is left of the total timeout, or the block timeout.
LEMMA DeadlineFacts ==
  ASSUME NEW tm, tm.block \in Int, tm.total \in Int, clock \in Nat, tm.total >= 0 => clock <= tm.total
  PROVE  /\ Net!Deadline(tm) \in Int
         /\ tm.block >= 0 => Net!Deadline(tm) # -1 /\ Net!Deadline(tm) - clock <= tm.block
         /\ tm.total >= 0 => Net!Deadline(tm) # -1 /\ Net!Deadline(tm) <= tm.total
         /\ Net!Deadline(tm) # -1 =>
              /\ clock <= Net!Deadline(tm)
              /\ Net!Deadline(tm) - clock = tm.block \/ Net!Deadline(tm) = tm.total
<1> DEFINE b == tm.block
           t == tm.total
           wait == Net!TimeoutGet(tm)
           d == Net!Deadline(tm)
<1>1. b \in Int /\ t \in Int /\ (t >= 0 => clock <= t)
  OBVIOUS
<1>2. d = IF wait < 0 THEN -1 ELSE clock + wait
  BY DEF Net!Deadline
<1>3. /\ b < 0 /\ t < 0 => wait = -1
      /\ b < 0 /\ t >= 0 => wait = t - clock
      /\ b >= 0 /\ t < 0 => wait = b
      /\ b >= 0 /\ t >= 0 => wait = IF b < t - clock THEN b ELSE t - clock
  BY <1>1 DEF Net!TimeoutGet, Net!MaxOf, Net!MinOf
<1> HIDE DEF b, t, wait, d
<1>4. /\ d \in Int
      /\ b >= 0 => d # -1 /\ d - clock <= b
      /\ t >= 0 => d # -1 /\ d <= t
      /\ d # -1 => clock <= d /\ (d - clock = b \/ d = t)
  <2>1. CASE b < 0 /\ t < 0
    BY <1>1, <1>2, <1>3, <2>1
  <2>2. CASE b < 0 /\ t >= 0
    BY <1>1, <1>2, <1>3, <2>2
  <2>3. CASE b >= 0 /\ t < 0
    BY <1>1, <1>2, <1>3, <2>3
  <2>4. CASE b >= 0 /\ t >= 0
    BY <1>1, <1>2, <1>3, <2>4
  <2> QED
    BY <1>1, <2>1, <2>2, <2>3, <2>4
<1> QED
  BY <1>4 DEF b, t, d

\* A call goes on to another try, or to its end.
LEMMA CallMoves ==
  ASSUME Calling, NEW o \in Objs, call.o = {o}, call.pc \in {"try", "wait"}, call.op # "select",
         call'.op = call.op, call'.o = call.o, clock' = clock,
         obj'[o].total = obj[o].total, obj'[o].class # "none",
         call'.pc = "done" \/ (call'.pc = "try" /\ obj'[o].sock # 0)
  PROVE  Calling'
<1>1. PICK p \in Objs : call.o = {p} /\ call.op \in Net!Ops /\ InTime(p)
  BY DEF Calling
<1>2. p = o
  BY <1>1
<1>3. InTime(o)' /\ call'.op \in Net!Ops
  BY <1>1, <1>2 DEF InTime
<1>4. /\ call'.o = {o} /\ call'.op \in Net!Ops /\ obj'[o].class # "none" /\ InTime(o)'
      /\ call'.pc \in {"try", "wait"} => obj'[o].sock # 0
  BY <1>3
<1>5. call'.pc # "idle" /\ call'.pc # "wait"
  OBVIOUS
<1> QED
  BY <1>4, <1>5 DEF Calling, Net!Ops

LEMMA BeginStep ==
  ASSUME SocketsInv, NEW o \in Objs, NEW op \in Net!Ops, Net!Begin(o, op)
  PROVE  SocketsInv'
<1> DEFINE c == [Net!Idle EXCEPT !.op = op, !.o = {o}, !.pc = "try"]
           self == [obj[o] EXCEPT !.class = Net!Class(o, op)]
<1>1. NetTypes /\ OneEach /\ Calling
  BY DEF SocketsInv
<1>2. /\ call.pc = "idle" /\ obj[o].class \in Net!AllowedIn(op) /\ sys' = sys /\ clock' = clock
      /\ \/ /\ op = "receive"
            /\ \E d \in BOOLEAN : obj' = [obj EXCEPT ![o].dirty = d]
            /\ call' = Net!Return(c, "done")
         \/ obj' = [obj EXCEPT ![o] = self] /\ call' = Net!Return(c, "error")
         \/ /\ obj' = [obj EXCEPT ![o] = self]
            /\ call' = IF self.sock = Net!NoSock THEN Net!Return(c, "closed") ELSE c
  BY DEF Net!Begin, Net!Quick
<1>3. c \in CallSet /\ c.op = op /\ c.o = {o} /\ c.pc = "try"
  <2>1. c = [[[Net!Idle EXCEPT !.op = op] EXCEPT !.o = {o}] EXCEPT !.pc = "try"]
    OBVIOUS
  <2>2. [Net!Idle EXCEPT !.op = op] \in CallSet /\ [Net!Idle EXCEPT !.op = op].op = op
    BY IdleIs DEF CallSet
  <2> QED
    BY <2>1, <2>2 DEF CallSet
<1>4. obj[o].class # "none" /\ obj[o].class \in Classes /\ Net!Class(o, op) # "none" /\ Net!Class(o, op) \in Classes
  BY <1>1, <1>2, ObjTypes DEF Net!AllowedIn, Net!Class, Net!Ops, Classes
<1>5. /\ self \in ObjSet /\ self.sock = obj[o].sock /\ self.class # "none" /\ self.total = obj[o].total
      /\ \A d \in BOOLEAN : /\ [obj[o] EXCEPT !.dirty = d] \in ObjSet
                            /\ [obj[o] EXCEPT !.dirty = d].sock = obj[o].sock
                            /\ [obj[o] EXCEPT !.dirty = d].class # "none"
                            /\ [obj[o] EXCEPT !.dirty = d].total = obj[o].total
  BY <1>1, <1>4, ObjTypes DEF ObjSet
<1>6. PICK x \in ObjSet : /\ obj' = [obj EXCEPT ![o] = x] /\ x.sock = obj[o].sock /\ x.class # "none"
                          /\ x.total = obj[o].total
  BY <1>2, <1>5
<1>7. /\ call' \in CallSet /\ call'.op = op /\ call'.o = {o} /\ call'.pc \in {"done", "try"}
      /\ call'.pc = "try" => obj[o].sock # 0
  <2>1. call' \in {Net!Return(c, "done"), Net!Return(c, "error"), Net!Return(c, "closed")}
          \/ (call' = c /\ obj[o].sock # 0)
    BY <1>2, <1>5 DEF Net!NoSock
  <2> HIDE DEF c
  <2> QED
    BY <1>3, <2>1, ReturnIs
<1> HIDE DEF c, self
<1>8. /\ obj' \in [Objs -> ObjSet] /\ sys' \in [Fds -> SysSet] /\ OneEach'
      /\ \A p \in Objs : obj'[p] = IF p = o THEN x ELSE obj[p]
  BY <1>1, <1>2, <1>6, Adjusting
<1>9. Calling'
  <2>1. clock' = 0
    BY <1>1, <1>2 DEF Calling
  <2>2. /\ call'.o = {o} /\ call'.op \in Net!Ops /\ obj'[o].class # "none"
        /\ call'.pc \in {"try", "wait"} => obj'[o].sock # 0
    BY <1>6, <1>7, <1>8
  <2>3. InTime(o)'
    BY <1>7, <2>1 DEF InTime
  <2> QED
    BY <1>7, <2>1, <2>2, <2>3 DEF Calling, Net!Ops
<1> QED
  BY <1>1, <1>2, <1>7, <1>8, <1>9 DEF SocketsInv, NetTypes

LEMMA TryStep ==
  ASSUME SocketsInv, Net!Try
  PROVE  SocketsInv'
<1>1. NetTypes /\ OneEach /\ Calling /\ call.pc = "try" /\ call.op # "select" /\ clock' = clock
  BY DEF SocketsInv, Net!Try
<1>2. PICK o \in Objs : /\ call.o = {o} /\ call.op \in Net!Ops /\ obj[o].class # "none" /\ InTime(o)
                        /\ obj[o].sock # 0
  BY <1>1 DEF Calling
<1> DEFINE f == obj[o].sock
<1>3. Net!Self = o /\ Net!Object = obj[o] /\ f \in Fds /\ sys[f] \in SysSet /\ sys[f].st # "free"
  BY <1>1, <1>2, SelfIs, ObjTypes, SysTypes DEF OneEach
<1>4. PICK out \in Net!System(call.op, sys[f]) :
        LET op == call.op
            after == [sys EXCEPT ![f] = out.s]
        IN \/ out.r = "done" /\ op = "accept"
              /\ \E g \in Fds \ Net!OpenSocks, q \in {x \in Objs : obj[x].class = "none"} :
                   /\ sys' = [after EXCEPT ![g] = [Net!Fresh("tcp") EXCEPT !.st = "connected"]]
                   /\ obj' = [obj EXCEPT ![q] = Net!Accepted(g)]
              /\ call' = Net!Return(call, "done")
           \/ out.r = "done" /\ op # "accept" /\ sys' = after
              /\ \E d \in IF op = "receive" /\ sys[f].kind = "tcp" THEN BOOLEAN ELSE {FALSE},
                    class \in Net!PeerClass(op, o) :
                   obj' = [obj EXCEPT ![o].dirty = d, ![o].class = class]
              /\ call' = Net!Return(call, "done")
           \/ out.r \in {"error", "closed"} /\ sys' = after /\ UNCHANGED obj /\ call' = Net!Return(call, out.r)
           \/ out.r \in {"would block", "aborted"} /\ sys' = after /\ UNCHANGED obj
              /\ call' = IF Net!IsZero(obj[o]) THEN Net!Return(call, "timeout")
                         ELSE [call EXCEPT !.pc = "wait", !.since = clock, !.deadline = Net!Deadline(obj[o])]
  BY <1>3 DEF Net!Try
<1> DEFINE s == out.s
<1>5. s \in SysSet /\ s.st # "free"
  BY <1>2, <1>3, <1>4, SystemFacts
<1> HIDE DEF s
<1>6. /\ call \in CallSet
      /\ \A res \in {"done", "error", "closed", "timeout"} :
           /\ Net!Return(call, res) \in CallSet /\ Net!Return(call, res).pc = "done"
           /\ Net!Return(call, res).op = call.op /\ Net!Return(call, res).o = call.o
  BY <1>1, ReturnIs DEF NetTypes
<1>7. CASE /\ \E g \in Fds \ Net!OpenSocks, q \in {x \in Objs : obj[x].class = "none"} :
                /\ sys' = [[sys EXCEPT ![f] = s] EXCEPT ![g] = [Net!Fresh("tcp") EXCEPT !.st = "connected"]]
                /\ obj' = [obj EXCEPT ![q] = Net!Accepted(g)]
           /\ call' = Net!Return(call, "done")
  <2>1. PICK g \in Fds \ Net!OpenSocks, q \in {x \in Objs : obj[x].class = "none"} :
               /\ sys' = [[sys EXCEPT ![f] = s] EXCEPT ![g] = [Net!Fresh("tcp") EXCEPT !.st = "connected"]]
               /\ obj' = [obj EXCEPT ![q] = Net!Accepted(g)]
    BY <1>7
  <2> DEFINE x == Net!Accepted(g)
             new == [Net!Fresh("tcp") EXCEPT !.st = "connected"]
  <2>2. x \in ObjSet /\ x.class # "none" /\ x.sock = g
    BY NewIs DEF Net!Accepted, Classes
  <2>3. new \in SysSet /\ new.st # "free"
    BY FreshIs DEF SysSet
  <2>4. /\ g \in Fds /\ sys[g].st = "free" /\ g # f /\ q \in Objs /\ obj[q].class = "none" /\ obj[q].sock = 0
        /\ q # o
    BY <1>1, <1>2, <1>3 DEF Net!OpenSocks, OneEach
  <2>5. sys' = [[sys EXCEPT ![f] = s] EXCEPT ![g] = new] /\ obj' = [obj EXCEPT ![q] = x]
    BY <2>1
  <2> HIDE DEF x, new
  <2>6. obj' \in [Objs -> ObjSet] /\ \A p \in Objs : obj'[p] = IF p = q THEN x ELSE obj[p]
    BY <1>1, <2>2, <2>4, <2>5, ObjSets
  <2>7. sys' \in [Fds -> SysSet] /\ \A h \in Fds : sys'[h] = IF h = g THEN new ELSE IF h = f THEN s ELSE sys[h]
    BY <1>1, <1>3, <1>5, <2>3, <2>4, <2>5 DEF NetTypes
  <2>8. OneEach'
    <3>1. \A p \in Objs : p # q => obj'[p].sock = obj[p].sock /\ (obj'[p].class = "none" => obj[p].sock = 0)
      BY <1>1, <2>6 DEF OneEach
    <3>2. \A h \in Fds : h # g => (sys'[h].st = "free" <=> sys[h].st = "free")
      BY <1>3, <1>5, <2>7
    <3>3. sys'[g].st # "free" /\ obj'[q].sock = g /\ obj'[q].class # "none"
      BY <2>2, <2>3, <2>4, <2>6, <2>7
    <3> QED
      BY <1>1, <2>4, <3>1, <3>2, <3>3, OneGets, ObjTypes
  <2>9. obj'[o] = obj[o]
    BY <2>4, <2>6
  <2>10. Calling'
    BY <1>1, <1>2, <1>6, <1>7, <2>9, CallMoves
  <2> QED
    BY <1>1, <1>6, <1>7, <2>6, <2>7, <2>8, <2>10 DEF SocketsInv, NetTypes
<1>8. CASE /\ sys' = [sys EXCEPT ![f] = s]
           /\ \E d \in IF call.op = "receive" /\ sys[f].kind = "tcp" THEN BOOLEAN ELSE {FALSE},
                 class \in Net!PeerClass(call.op, o) :
                obj' = [obj EXCEPT ![o].dirty = d, ![o].class = class]
           /\ call' = Net!Return(call, "done")
  <2>1. PICK d \in BOOLEAN, class \in Net!PeerClass(call.op, o) :
               obj' = [obj EXCEPT ![o].dirty = d, ![o].class = class]
    BY <1>8
  <2>2. class \in Classes /\ class # "none"
    BY <1>1, <1>2, ObjTypes DEF Net!PeerClass, Net!AllowedIn, Classes
  <2> DEFINE x == [[obj[o] EXCEPT !.dirty = d] EXCEPT !.class = class]
  <2>3. x \in ObjSet /\ x.sock = obj[o].sock /\ x.class # "none" /\ x.total = obj[o].total
    BY <1>1, <2>2, ObjTypes DEF ObjSet
  <2>4. obj' = [obj EXCEPT ![o] = x]
    BY <1>1, <2>1 DEF NetTypes
  <2> HIDE DEF x
  <2>5. /\ obj' \in [Objs -> ObjSet] /\ sys' \in [Fds -> SysSet] /\ OneEach'
        /\ \A p \in Objs : obj'[p] = IF p = o THEN x ELSE obj[p]
    BY <1>3, <1>5, <1>8, <2>3, <2>4, Adjusting
  <2>6. Calling'
    <3>1. obj'[o].total = obj[o].total /\ obj'[o].class # "none"
      BY <2>3, <2>5
    <3> QED
      BY <1>1, <1>2, <1>6, <1>8, <3>1, CallMoves
  <2> QED
    BY <1>1, <1>6, <1>8, <2>5, <2>6 DEF SocketsInv, NetTypes
<1>9. CASE /\ sys' = [sys EXCEPT ![f] = s] /\ UNCHANGED obj
           /\ \E res \in {"error", "closed", "timeout"} : call' = Net!Return(call, res)
  <2>1. obj' \in [Objs -> ObjSet] /\ sys' \in [Fds -> SysSet] /\ OneEach'
    BY <1>1, <1>3, <1>5, <1>9, SysChanges
  <2>2. call' \in CallSet /\ call'.pc = "done" /\ call'.op = call.op /\ call'.o = call.o
    BY <1>6, <1>9
  <2>3. Calling'
    BY <1>1, <1>2, <1>9, <2>2, CallMoves
  <2> QED
    BY <1>1, <2>1, <2>2, <2>3 DEF SocketsInv, NetTypes
<1>10. CASE /\ sys' = [sys EXCEPT ![f] = s] /\ UNCHANGED obj
            /\ call' = [call EXCEPT !.pc = "wait", !.since = clock, !.deadline = Net!Deadline(obj[o])]
  <2>1. obj' \in [Objs -> ObjSet] /\ sys' \in [Fds -> SysSet] /\ OneEach'
    BY <1>1, <1>3, <1>5, <1>10, SysChanges
  <2> DEFINE d == Net!Deadline(obj[o])
             b == obj[o].block
             t == obj[o].total
  <2>2. clock \in Nat /\ b \in Int /\ t \in Int /\ (t >= 0 => clock <= t)
    BY <1>1, <1>2, ObjTypes DEF NetTypes, InTime
  <2>3. /\ d \in Int
        /\ b >= 0 => d # -1 /\ d - clock <= b
        /\ t >= 0 => d # -1 /\ d <= t
        /\ d # -1 => clock <= d /\ (d - clock = b \/ d = t)
    BY <2>2, DeadlineFacts
  <2>4. call' = [call EXCEPT !.pc = "wait", !.since = clock, !.deadline = d]
    BY <1>10
  <2> HIDE DEF d
  <2>5. /\ call' \in CallSet /\ call'.pc = "wait" /\ call'.op = call.op /\ call'.o = call.o
        /\ call'.since = clock /\ call'.deadline = d
    <3>1. call' = [[[call EXCEPT !.pc = "wait"] EXCEPT !.since = clock] EXCEPT !.deadline = d]
      BY <2>4
    <3>2. clock \in Int /\ d \in Int /\ call \in CallSet
      BY <1>6, <2>2, <2>3
    <3> DEFINE k == [[call EXCEPT !.pc = "wait"] EXCEPT !.since = clock]
    <3>3. k \in CallSet /\ k.pc = "wait" /\ k.op = call.op /\ k.o = call.o /\ k.since = clock
      BY <3>2 DEF CallSet
    <3> HIDE DEF k
    <3>4. call' = [k EXCEPT !.deadline = d]
      BY <3>1 DEF k
    <3> QED
      BY <3>2, <3>3, <3>4 DEF CallSet
  <2>6. InTime(o)'
    BY <1>1, <1>10, <2>2, <2>3, <2>5 DEF InTime
  <2>7. Calling'
    BY <1>1, <1>2, <1>10, <2>5, <2>6 DEF Calling
  <2> QED
    BY <1>1, <2>1, <2>5, <2>7 DEF SocketsInv, NetTypes
<1> QED
  BY <1>4, <1>7, <1>8, <1>9, <1>10 DEF s
LEMMA WakeStep ==
  ASSUME SocketsInv, Net!Wake
  PROVE  SocketsInv'
<1>1. NetTypes /\ OneEach /\ Calling /\ call.pc = "wait" /\ call.op # "select" /\ UNCHANGED <<obj, sys, clock>>
  BY DEF SocketsInv, Net!Wake
<1>2. PICK o \in Objs : call.o = {o} /\ call.op \in Net!Ops /\ obj[o].class # "none" /\ obj[o].sock # 0
  BY <1>1 DEF Calling
<1>3. call \in CallSet
  BY <1>1 DEF NetTypes
<1>4. /\ call' \in CallSet /\ call'.op = call.op /\ call'.o = call.o /\ call'.pc \in {"done", "try"}
  <2>1. CASE call' = [call EXCEPT !.pc = "try"]
    BY <1>3, <2>1 DEF CallSet
  <2>2. CASE \E res \in {"done", "error", "timeout"} : call' = Net!Return(call, res)
    BY <1>3, <2>2, ReturnIs
  <2> QED
    BY <2>1, <2>2 DEF Net!Wake
<1>5. OneEach' /\ obj' \in [Objs -> ObjSet] /\ sys' \in [Fds -> SysSet] /\ clock' \in Nat
  BY <1>1 DEF OneEach, NetTypes
<1>6. Calling'
  <2>1. obj'[o].total = obj[o].total /\ obj'[o].class # "none" /\ obj'[o].sock # 0
    BY <1>1, <1>2
  <2> QED
    BY <1>1, <1>2, <1>4, <2>1, CallMoves
<1> QED
  BY <1>4, <1>5, <1>6 DEF SocketsInv, NetTypes

LEMMA SelectStep ==
  ASSUME SocketsInv, NEW s \in Selects, Net!Select(s.r, s.w, s.t)
  PROVE  SocketsInv'
<1>1. NetTypes /\ OneEach /\ Calling /\ call.pc = "idle" /\ UNCHANGED <<obj, sys, clock>> /\ clock = 0
  BY DEF SocketsInv, Calling, Net!Select, Net!Quick
<1>2. s.r \subseteq Objs /\ s.w \subseteq Objs /\ s.t \in Int
  BY NetAssumption DEF Net!SocketsAssumption
<1> DEFINE tm == [block |-> Net!SelectLimit(s.t, Net!Dirty(s.r)), total |-> -1, dirty |-> FALSE]
           d == Net!Deadline(tm)
           asked == [Net!Idle EXCEPT !.op = "select", !.o = s.r, !.w = s.w, !.pc = "wait"]
<1>3. tm.block \in Int /\ tm.total = -1 /\ (Net!Dirty(s.r) # {} => tm.block = 0)
  BY <1>2 DEF Net!SelectLimit
<1>4. d \in Int /\ (Net!Dirty(s.r) # {} => d = 0)
  <2> HIDE DEF tm
  <2>1. clock \in Nat /\ tm.total \in Int /\ ~(tm.total >= 0)
    BY <1>1, <1>3
  <2>2. /\ d \in Int
        /\ tm.block >= 0 => d # -1 /\ d - clock <= tm.block
        /\ d # -1 => clock <= d
    BY <1>3, <2>1, DeadlineFacts
  <2> QED
    BY <1>1, <1>3, <2>2
<1>5. call' = [asked EXCEPT !.deadline = d]
  BY DEF Net!Select
<1> HIDE DEF tm, d
<1>6. asked \in CallSet /\ asked.got = {} /\ asked.op = "select" /\ asked.o = s.r /\ asked.pc = "wait"
  <2> DEFINE first == [Net!Idle EXCEPT !.op = "select"]
             second == [first EXCEPT !.o = s.r]
             third == [second EXCEPT !.w = s.w]
  <2>1. first \in CallSet /\ first.got = {} /\ first.op = "select"
    BY IdleIs DEF CallSet
  <2> HIDE DEF first
  <2>2. second \in CallSet /\ second.got = {} /\ second.op = "select" /\ second.o = s.r
    BY <1>2, <2>1 DEF CallSet
  <2> HIDE DEF second
  <2>3. third \in CallSet /\ third.got = {} /\ third.op = "select" /\ third.o = s.r
    BY <1>2, <2>2 DEF CallSet
  <2>4. asked = [third EXCEPT !.pc = "wait"]
    BY DEF second, first
  <2> HIDE DEF third
  <2> QED
    BY <2>3, <2>4 DEF CallSet
<1> HIDE DEF asked
<1>7. call' \in CallSet /\ call'.op = "select" /\ call'.o = s.r /\ call'.pc = "wait" /\ call'.got = {} /\ call'.deadline = d
  BY <1>4, <1>5, <1>6 DEF CallSet
<1>8. s.r = Net!Live(s.r) /\ Net!Dirty(s.r)' = Net!Dirty(s.r)
  BY <1>1 DEF Net!Select, Net!Dirty, Net!Live, Net!Sock
<1>9. \A o \in s.r : obj[o].class # "none"
  BY <1>8 DEF Net!Live
<1>10. Net!Dirty(call.o)' = Net!Dirty(s.r)
  BY <1>7, <1>8 DEF Net!Dirty, Net!Live, Net!Sock
<1>11. Calling'
  BY <1>1, <1>4, <1>7, <1>9, <1>10 DEF Calling
<1>12. OneEach' /\ obj' \in [Objs -> ObjSet] /\ sys' \in [Fds -> SysSet] /\ clock' \in Nat
  BY <1>1 DEF OneEach, NetTypes
<1> QED
  BY <1>7, <1>11, <1>12 DEF SocketsInv, NetTypes

\* What select reports: sets of the objects it was asked about.
LEMMA SelectResult ==
  ASSUME NetTypes, Net!SelectReturns
  PROVE  LET some == Net!Found \cup Net!Open(call.w) # {} \/ Net!Dirty(call.o) # {}
         IN  /\ call' \in CallSet /\ call'.pc = "done" /\ call'.op = "select"
             /\ some => /\ call'.res = "done"
                        /\ call'.got = Net!Dirty(call.o) \cup Net!ReturnFd(call.o, Net!Found)
                        /\ call'.put = Net!ReturnFd(call.w, Net!Open(call.w))
             /\ ~some => call'.res = "timeout" /\ call'.got = call.got
<1> DEFINE some == Net!Found \cup Net!Open(call.w) # {} \/ Net!Dirty(call.o) # {}
           got == Net!Dirty(call.o) \cup Net!ReturnFd(call.o, Net!Found)
           put == Net!ReturnFd(call.w, Net!Open(call.w))
<1>1. got \subseteq Objs /\ put \subseteq Objs
  BY CallTypes DEF Net!Dirty, Net!Live, Net!ReturnFd
<1>2. /\ call.op = "select" /\ call \in CallSet
      /\ some => call' = [[Net!Return(call, "done") EXCEPT !.got = got] EXCEPT !.put = put]
      /\ ~some => call' = Net!Return(call, "timeout")
  BY DEF Net!SelectReturns, NetTypes
<1> HIDE DEF some, got, put
<1>3. CASE some
  <2> DEFINE c == Net!Return(call, "done")
             k == [c EXCEPT !.got = got]
  <2>1. c \in CallSet /\ c.pc = "done" /\ c.op = "select" /\ c.res = "done"
    BY <1>2, ReturnIs
  <2>2. call' = [k EXCEPT !.put = put]
    BY <1>2, <1>3
  <2> HIDE DEF c
  <2>3. k \in CallSet /\ k.pc = "done" /\ k.op = "select" /\ k.res = "done" /\ k.got = got
    BY <1>1, <2>1 DEF CallSet
  <2> HIDE DEF k
  <2>4. call' \in CallSet /\ call'.pc = "done" /\ call'.op = "select" /\ call'.res = "done" /\ call'.got = got
        /\ call'.put = put
    BY <1>1, <2>2, <2>3 DEF CallSet
  <2> QED
    BY <1>3, <2>4 DEF some, got, put
<1>4. CASE ~some
  <2>1. call' = Net!Return(call, "timeout")
    BY <1>2, <1>4
  <2>2. call'.got = call.got
    BY <1>2, <2>1 DEF Net!Return, CallSet
  <2> QED
    BY <1>2, <1>4, <2>1, <2>2, ReturnIs DEF some
<1> QED
  BY <1>3, <1>4

LEMMA SelectReturnsStep ==
  ASSUME SocketsInv, Net!SelectReturns
  PROVE  SocketsInv'
<1>1. NetTypes /\ OneEach /\ Calling /\ UNCHANGED <<obj, sys, clock>>
  BY DEF SocketsInv, Net!SelectReturns
<1>2. call' \in CallSet /\ call'.pc = "done" /\ call'.op = "select"
  BY <1>1, SelectResult
<1>3. OneEach' /\ obj' \in [Objs -> ObjSet] /\ sys' \in [Fds -> SysSet] /\ clock' \in Nat
  BY <1>1 DEF OneEach, NetTypes
<1> QED
  BY <1>2, <1>3 DEF SocketsInv, NetTypes, Calling
-----------------------------------------------------------------------------
(* The network and the time.                                               *)

LEMMA NetStep ==
  ASSUME SocketsInv, NEW f \in Fds, NEW s \in SysSet, s.st # "free", sys[f].st # "free", Net!Net(f, s)
  PROVE  SocketsInv'
<1>1. NetTypes /\ OneEach /\ Calling /\ UNCHANGED <<obj, clock, call>> /\ sys' = [sys EXCEPT ![f] = s]
  BY DEF SocketsInv, Net!Net
<1>2. obj' \in [Objs -> ObjSet] /\ sys' \in [Fds -> SysSet] /\ OneEach'
  BY <1>1, SysChanges
<1>3. Calling'
  <2>1. Net!Dirty(call.o)' = Net!Dirty(call.o) /\ \A o \in Objs : InTime(o)' <=> InTime(o)
    BY <1>1 DEF Net!Dirty, Net!Live, Net!Sock, InTime
  <2> QED
    BY <1>1, <2>1, CallTypes DEF Calling
<1> QED
  BY <1>1, <1>2, <1>3 DEF SocketsInv, NetTypes

LEMMA NetworkStep ==
  ASSUME SocketsInv, NEW f \in Fds,
         Net!Arrive(f) \/ Net!GoAway(f) \/ Net!PeerCloses(f) \/ Net!Drain(f) \/ Net!Connected(f)
  PROVE  SocketsInv'
<1>1. sys[f] \in SysSet /\ sys[f].pending \in Int
  BY SysTypes DEF SocketsInv
<1> DEFINE s == sys[f]
<1>2. CASE Net!Arrive(f)
  <2> DEFINE n == s.pending + 1
             x == [s EXCEPT !.pending = n]
  <2>1. n \in Int /\ s.st # "free"
    BY <1>1, <1>2 DEF Net!Arrive
  <2>2. Net!Net(f, x)
    BY <1>2 DEF Net!Arrive
  <2> HIDE DEF n
  <2>3. x \in SysSet /\ x.st = s.st
    BY <1>1, <2>1 DEF SysSet
  <2> HIDE DEF x
  <2> QED
    BY <2>1, <2>2, <2>3, NetStep
<1>3. CASE Net!GoAway(f)
  <2>1. PICK told \in BOOLEAN : Net!Net(f, [s EXCEPT !.pending = @ - 1, !.gone = told \/ @])
    BY <1>3 DEF Net!GoAway
  <2> DEFINE n == s.pending - 1
             g == told \/ s.gone
             k == [s EXCEPT !.pending = n]
             x == [k EXCEPT !.gone = g]
  <2>2. n \in Int /\ g \in BOOLEAN /\ s.st # "free"
    <3>1. n \in Int /\ s.st # "free"
      <4>1. s.st = "listening" /\ s.pending \in Int
        BY <1>1, <1>3 DEF Net!GoAway
      <4> HIDE DEF s
      <4> QED
        BY <4>1
    <3>2. g \in BOOLEAN
      <4>1. g = TRUE \/ g = FALSE
        OBVIOUS
      <4> HIDE DEF g
      <4> QED
        BY <4>1
    <3> QED
      BY <3>1, <3>2
  <2>3. k.gone = s.gone
    BY <1>1 DEF SysSet
  <2>4. [s EXCEPT !.pending = n, !.gone = g] = x
    OBVIOUS
  <2>5. Net!Net(f, x)
    BY <2>1, <2>4
  <2> HIDE DEF n, g
  <2>6. k \in SysSet /\ k.st = s.st
    BY <1>1, <2>2 DEF SysSet
  <2> HIDE DEF k
  <2>7. x \in SysSet /\ x.st = s.st
    BY <2>2, <2>6 DEF SysSet
  <2> HIDE DEF x
  <2> QED
    BY <2>2, <2>5, <2>7, NetStep
<1>4. CASE Net!PeerCloses(f)
  <2> DEFINE x == [s EXCEPT !.eof = TRUE]
  <2>1. Net!Net(f, x) /\ s.st # "free"
    BY <1>4 DEF Net!PeerCloses
  <2>2. x \in SysSet /\ x.st = s.st
    BY <1>1 DEF SysSet
  <2> HIDE DEF x
  <2> QED
    BY <2>1, <2>2, NetStep
<1>5. CASE Net!Drain(f)
  <2> DEFINE x == [s EXCEPT !.room = TRUE]
  <2>1. Net!Net(f, x) /\ s.st # "free"
    BY <1>5 DEF Net!Drain
  <2>2. x \in SysSet /\ x.st = s.st
    BY <1>1 DEF SysSet
  <2> HIDE DEF x
  <2> QED
    BY <2>1, <2>2, NetStep
<1>6. CASE Net!Connected(f)
  <2>1. PICK st \in {"connected", "failed"} : Net!Net(f, [s EXCEPT !.st = st])
    BY <1>6 DEF Net!Connected
  <2> DEFINE x == [s EXCEPT !.st = st]
  <2>2. x \in SysSet /\ x.st # "free" /\ s.st # "free"
    BY <1>1, <1>6 DEF Net!Connected, SysSet
  <2>3. Net!Net(f, x)
    BY <2>1
  <2> HIDE DEF x
  <2> QED
    BY <2>2, <2>3, NetStep
<1> QED
  BY <1>2, <1>3, <1>4, <1>5, <1>6

LEMMA TickStep ==
  ASSUME SocketsInv, Net!Tick
  PROVE  SocketsInv'
<1>1. /\ NetTypes /\ OneEach /\ Calling /\ call.pc = "wait" /\ call.deadline # clock
      /\ clock' = clock + 1 /\ UNCHANGED <<obj, sys, call>>
  BY DEF SocketsInv, Net!Tick, Net!Overdue
<1>2. clock \in Nat /\ call.deadline \in Int /\ call.since \in Int
  BY <1>1, CallTypes DEF NetTypes
<1>3. OneEach' /\ NetTypes'
  BY <1>1, <1>2 DEF OneEach, NetTypes
<1>4. Calling'
  <2>1. Net!Dirty(call.o)' = Net!Dirty(call.o)
    BY <1>1 DEF Net!Dirty, Net!Live, Net!Sock
  <2>2. \A o \in Objs : InTime(o) => InTime(o)'
    <3>1. SUFFICES ASSUME NEW o \in Objs, InTime(o) PROVE InTime(o)'
      OBVIOUS
    <3> DEFINE b == obj[o].block
               t == obj[o].total
               d == call.deadline
    <3>2. b \in Int /\ t \in Int /\ d \in Int
      BY <1>1, <1>2, ObjTypes
    <3>3. /\ b >= 0 => d # -1 /\ d - call.since <= b
          /\ t >= 0 => d # -1 /\ d <= t
          /\ d # -1 => clock <= d /\ (d - call.since = b \/ d = t)
      BY <1>1, <3>1 DEF InTime
    <3>4. d # clock
      BY <1>1
    <3> HIDE DEF b, t, d
    <3>5. /\ t >= 0 => clock + 1 <= t
          /\ d # -1 => clock + 1 <= d
      BY <1>2, <3>2, <3>3, <3>4
    <3>6. obj'[o].block = b /\ obj'[o].total = t /\ call'.deadline = d /\ call'.since = call.since /\ clock' = clock + 1
      BY <1>1 DEF b, t, d
    <3> QED
      BY <3>3, <3>5, <3>6 DEF InTime
  <2>3. call.op = "select" => Net!Dirty(call.o) = {}
    BY <1>1, <1>2 DEF Calling
  <2> QED
    BY <1>1, <2>1, <2>2, <2>3 DEF Calling
<1> QED
  BY <1>3, <1>4 DEF SocketsInv

LEMMA DoneStep ==
  ASSUME SocketsInv, Net!Done
  PROVE  SocketsInv'
<1>1. NetTypes /\ OneEach /\ call' = Net!Idle /\ clock' = 0 /\ UNCHANGED <<obj, sys>>
  BY DEF SocketsInv, Net!Done
<1>2. NetTypes' /\ OneEach'
  BY <1>1, IdleIs DEF NetTypes, OneEach
<1>3. call'.pc = "idle"
  BY <1>1, IdleIs
<1>4. Calling'
  BY <1>1, <1>3 DEF Calling
<1> QED
  BY <1>2, <1>4 DEF SocketsInv

LEMMA SocketsStart == MCInit => SocketsInv
<1> SUFFICES ASSUME MCInit PROVE SocketsInv
  OBVIOUS
<1>1. obj = [o \in Objs |-> Net!NoObj] /\ sys = [f \in Fds |-> Net!Free] /\ clock = 0 /\ call = Net!Idle
  BY DEF MCInit, Net!Init
<1>2. Net!NoObj \in ObjSet /\ Net!NoObj.sock = 0
  BY DEF Net!NoObj, Net!NoSock, ObjSet, Classes
<1>3. Net!Free \in SysSet /\ Net!Free.st = "free"
  BY FreshIs
<1>4. NetTypes
  BY <1>1, <1>2, <1>3, IdleIs DEF NetTypes
<1>5. OneEach
  BY <1>1, <1>2, <1>3 DEF OneEach
<1>6. Calling
  BY <1>1, IdleIs DEF Calling
<1> QED
  BY <1>4, <1>5, <1>6 DEF SocketsInv

LEMMA SocketsNext ==
  ASSUME SocketsInv, Net!Next
  PROVE  SocketsInv'
<1>1. ASSUME NEW o \in Objs,
             \/ \E kind \in Kinds : Net!Create(o, kind)
             \/ Net!Close(o) \/ Net!Bind(o) \/ Net!Listen(o) \/ Net!Shutdown(o)
             \/ Net!SetTimeout(o)
             \/ \E op \in Net!Ops : Net!Begin(o, op)
      PROVE  SocketsInv'
  BY <1>1, CreateStep, CloseSockStep, BindStep, ListenStep, ShutdownStep, SetTimeoutStep, BeginStep
<1>2. ASSUME \E s \in Selects : Net!Select(s.r, s.w, s.t) PROVE SocketsInv'
  BY <1>2, SelectStep
<1>3. ASSUME \E f \in Fds : Net!Arrive(f) \/ Net!GoAway(f) \/ Net!PeerCloses(f) \/ Net!Drain(f) \/ Net!Connected(f)
      PROVE  SocketsInv'
  BY <1>3, NetworkStep
<1>4. ASSUME Net!Try \/ Net!Wake \/ Net!SelectReturns \/ Net!Tick \/ Net!Done PROVE SocketsInv'
  BY <1>4, TryStep, WakeStep, SelectReturnsStep, TickStep, DoneStep
<1> QED
  BY <1>1, <1>2, <1>3, <1>4 DEF Net!Next

\* Whose every system socket is, and how long the call in progress may take.
THEOREM SocketsInvariant == MCSpec => []SocketsInv
<1>1. ASSUME SocketsInv, [MCNext]_<<part, vars, ring, open, given, environment, caller, cache, thread, height, ctl,
                                    obj, sys, clock, call>>
      PROVE  SocketsInv'
  <2>1. CASE Net!Next
    BY <1>1, <2>1, SocketsNext
  <2>2. CASE UNCHANGED <<obj, sys, clock, call>>
    <3>1. NetTypes' /\ OneEach'
      BY <1>1, <2>2 DEF SocketsInv, NetTypes, OneEach
    <3>2. Calling'
      BY <1>1, <2>2 DEF SocketsInv, Calling, InTime, Net!Dirty, Net!Live, Net!Sock
    <3> QED
      BY <3>1, <3>2 DEF SocketsInv
  <2> QED
    BY <1>1, <2>1, <2>2 DEF MCNext, Still
<1> QED
  BY <1>1, SocketsStart, PTL DEF MCSpec
-----------------------------------------------------------------------------
LEMMA SameNumber == \A S : Net!Cardinality(S) = Cardinality(S)
BY DEF Net!Cardinality, Cardinality

\* Every open system socket is one object's own, every object has one of its own that is open
\* or none, and no call waits beyond the timeouts of its object, however often it is woken for
\* nothing, nor gives up before one of them is over (wsocket.c:87-119, timeout.c:47-104).
THEOREM SocketsKept == MCSpec => []SocketsSound
<1>1. SocketsInv => Net!Owned
  <2> SUFFICES ASSUME SocketsInv PROVE Net!Owned
    OBVIOUS
  <2>1. NetTypes /\ OneEach
    BY DEF SocketsInv
  <2>2. ASSUME NEW f \in Net!OpenSocks PROVE Net!Cardinality({o \in Objs : Net!Sock(o) = f}) = 1
    <3>1. f \in Fds /\ sys[f].st # "free" /\ f # 0
      BY <2>2, FdsPositive DEF Net!OpenSocks
    <3>2. PICK o \in Objs : obj[o].sock = f
      BY <2>1, <3>1 DEF OneEach
    <3>3. {p \in Objs : Net!Sock(p) = f} = {o}
      BY <2>1, <3>1, <3>2 DEF OneEach, Net!Sock
    <3> QED
      BY <3>3, FS_Singleton, SameNumber
  <2>3. ASSUME NEW o \in Objs, Net!Sock(o) # Net!NoSock PROVE Net!Sock(o) \in Net!OpenSocks
    BY <2>1, <2>3, ObjTypes DEF OneEach, Net!Sock, Net!NoSock, Net!OpenSocks
  <2> QED
    BY <2>2, <2>3 DEF Net!Owned
<1>2. SocketsInv => Net!KeepsTime
  <2>1. SUFFICES ASSUME SocketsInv, call.pc # "idle", call.op # "select" PROVE Net!KeepsTime
    BY DEF Net!KeepsTime, Net!Quick
  <2>2. PICK o \in Objs : call.o = {o} /\ InTime(o)
    BY <2>1 DEF SocketsInv, Calling
  <2>3. Net!Object = obj[o]
    BY <2>2, SelfIs
  <2> DEFINE b == obj[o].block
             t == obj[o].total
             d == call.deadline
             from == call.since
  <2>4. b \in Int /\ t \in Int /\ d \in Int /\ from \in Int /\ clock \in Nat
    BY <2>1, ObjTypes, CallTypes DEF SocketsInv, NetTypes
  <2>5. /\ t >= 0 => clock <= t
        /\ call.pc = "wait" => /\ b >= 0 => d # -1 /\ d - from <= b
                               /\ d # -1 => clock <= d /\ (d - from = b \/ d = t)
    BY <2>2 DEF InTime
  <2>6. /\ t >= 0 => clock <= t
        /\ b >= 0 /\ call.pc = "wait" => clock - from <= b
        /\ call.pc = "wait" /\ d # -1 => d - from = b \/ d = t
    <3> HIDE DEF b, t, d, from
    <3> QED
      BY <2>4, <2>5
  <2> QED
    BY <2>3, <2>6 DEF Net!KeepsTime
<1>3. SocketsInv => SocketsSound
  BY <1>1, <1>2 DEF SocketsSound
<1> QED
  BY <1>3, SocketsInvariant, PTL

\* What select reports of the objects it was asked to read.
LEMMA SelectReports ==
  ASSUME SocketsInv, Net!SelectReturns
  PROVE  Net!SelectReturned
<1>1. NetTypes /\ OneEach /\ Calling /\ call.pc = "wait" /\ call.op = "select"
  BY DEF SocketsInv, Net!SelectReturns
<1> DEFINE some == Net!Found \cup Net!Open(call.w) # {} \/ Net!Dirty(call.o) # {}
           Wanted(o) == Net!Sock(o) # Net!NoSock /\ (obj[o].dirty \/ Net!Readable(sys[Net!Sock(o)]))
<1>2. /\ some => /\ call'.res = "done"
                 /\ call'.got = Net!Dirty(call.o) \cup Net!ReturnFd(call.o, Net!Found)
                 /\ call'.put = Net!ReturnFd(call.w, Net!Open(call.w))
      /\ ~some => call'.res = "timeout" /\ call'.got = call.got
  BY <1>1, SelectResult
<1>3. Net!Found # {} \/ Net!Open(call.w) # {} \/ call.deadline = clock
  BY DEF Net!SelectReturns
<1>4. Net!Dirty(call.o) # {} => clock = 0
  BY <1>1 DEF Calling
<1>5. call.o \subseteq Objs /\ call.w \subseteq Objs /\ \A o \in call.o : obj[o].class # "none"
  BY <1>1, CallTypes DEF Calling
<1>6. \A o \in call.o : o \in Net!Dirty(call.o) <=> Net!Sock(o) # Net!NoSock /\ obj[o].dirty
  BY <1>5 DEF Net!Dirty, Net!Live
<1>7. \A o \in call.o : Net!Sock(o) # Net!NoSock => Net!Sock(o) \in Net!CollectFd(call.o)
  BY <1>5 DEF Net!CollectFd, Net!Live
<1>8. \A o \in call.o : Wanted(o) => o \in Net!Dirty(call.o) \/ Net!Sock(o) \in Net!Found
  <2>1. SUFFICES ASSUME NEW o \in call.o, Wanted(o), o \notin Net!Dirty(call.o)
                 PROVE  Net!Sock(o) \in Net!Found
    OBVIOUS
  <2>2. Net!Sock(o) \in Net!CollectFd(call.o) /\ Net!Readable(sys[Net!Sock(o)])
    BY <1>6, <1>7, <2>1
  <2>3. ASSUME NEW p \in Net!Dirty(call.o) PROVE Net!Sock(p) # Net!Sock(o)
    <3>1. p \in Objs /\ o \in Objs /\ p # o /\ Net!Sock(o) # 0
      BY <1>5, <2>1 DEF Net!Dirty, Net!Live, Net!NoSock
    <3> QED
      BY <1>1, <3>1 DEF OneEach, Net!Sock
  <2> QED
    BY <2>2, <2>3 DEF Net!Found, Net!ReadSet
<1>9. \A o \in Net!ReturnFd(call.o, Net!Found) : o \in call.o /\ Wanted(o)
  BY DEF Net!ReturnFd, Net!Found, Net!ReadSet, Net!CollectFd
<1>10. \A o \in Net!Dirty(call.o) : o \in call.o /\ Wanted(o)
  BY DEF Net!Dirty, Net!Live
<1>11. Net!Found # {} => Net!ReturnFd(call.o, Net!Found) # {}
  BY DEF Net!ReturnFd, Net!Found, Net!ReadSet, Net!CollectFd, Net!Live
<1>12. Net!Open(call.w) # {} => Net!ReturnFd(call.w, Net!Open(call.w)) # {}
  BY DEF Net!ReturnFd, Net!Open, Net!CollectFd, Net!Live
<1>13. CASE some
  <2>1. /\ call'.res = "done" /\ call'.got = Net!Dirty(call.o) \cup Net!ReturnFd(call.o, Net!Found)
        /\ call'.put = Net!ReturnFd(call.w, Net!Open(call.w))
    BY <1>2, <1>13
  <2>2. call'.got \cup call'.put # {}
    BY <1>11, <1>12, <1>13, <2>1
  <2>3. \A o \in call'.got : o \in call.o /\ Wanted(o)
    BY <1>9, <1>10, <2>1
  <2>4. \A o \in call.o : Wanted(o) => o \in call'.got
    BY <1>8, <2>1 DEF Net!ReturnFd
  <2> HIDE DEF some
  <2> QED
    BY <1>4, <2>1, <2>2, <2>3, <2>4 DEF Net!SelectReturned
<1>14. CASE ~some
  <2>1. /\ call'.res = "timeout" /\ Net!Dirty(call.o) = {} /\ Net!Found = {} /\ Net!Open(call.w) = {}
        /\ clock = call.deadline /\ call'.got = {}
    BY <1>1, <1>2, <1>3, <1>14 DEF Calling
  <2> QED
    BY <2>1 DEF Net!SelectReturned
<1> QED
  BY <1>13, <1>14

\* socket.select says of the objects it was asked to read exactly those that hold bytes or
\* have something to read, those with bytes in their buffer without waiting, and "timeout" only
\* when the time asked is over and there is nothing (select.c:70-96, 123-150).
THEOREM SelectTellsAll == MCSpec => SelectsSound
<1>1. SocketsInv => (part = "sockets" => Net!SelectReturned)
  BY SelectReports DEF Net!SelectReturned
<1> QED
  BY <1>1, SocketsInvariant, PTL DEF SelectsSound
=============================================================================
