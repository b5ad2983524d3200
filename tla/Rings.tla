--------------------------------- MODULE Rings ---------------------------------
(***************************************************************************)
(* Rings (rings.c): slave Lua states of a master state.  Master code runs  *)
(* a string in a slave with dostring, the slave runs strings in the master *)
(* with remotedostring, and the two nest.  One of them runs at a time:     *)
(* ctl is the stack of what is active, its last frame what runs.           *)
(*                                                                         *)
(* A slave's state is an address, used again after lua_close; a thread of  *)
(* the master too, after it is collected.  A compiled string is the string *)
(* with the environment it was given.                                      *)
(***************************************************************************)
EXTENDS Integers, Sequences, FiniteSets, SequencesExt

CONSTANTS RingObjs,      \* userdata of the master
          Addrs,         \* addresses of slave states
          Coroutines,    \* of the master, besides its main thread
          Envs,          \* environments given to rings
          Strings,       \* strings of code
          MaxDepth,      \* bound of ctl
          Disciplined    \* whether scripts neither close a ring that runs nor enter it from another thread

RingsAssumption ==
  /\ Addrs \cap ({"main", "closed", "none"} \cup Coroutines) = {} /\ "main" \notin Coroutines
  /\ MaxDepth \in Nat /\ Disciplined \in BOOLEAN

VARIABLES ring,    \* the address a userdata holds, or "closed", "none"
          open,    \* the states that are not closed
          given,   \* the environment each userdata was given (history)
          env,     \* RINGS_ENV in the master's registry
          caller,  \* RINGS_STATE in a slave's registry
          cache,   \* compiled strings: RINGS_CACHE of a slave, and the master's cache for it
          thread,  \* the master's threads
          height,  \* how much is on the stack of a state or thread, between its frames
          ctl

vars == <<ring, open, given, env, caller, cache, thread, height, ctl>>

Threads == {"main"} \cup Coroutines
NoEnv == "globals"
Frame(kind, on, r, e) == [kind |-> kind, on |-> on, ring |-> r, env |-> e]
Running == Last(ctl)
InMaster == Running.kind # "slave"
Frames(kind) == {i \in DOMAIN ctl : ctl[i].kind = kind}
RunsIn(r) == \E i \in Frames("slave") : ctl[i].ring = r
Active(t) == \E i \in DOMAIN ctl : ctl[i].on = t

Init ==
  /\ ring = [r \in RingObjs |-> "none"] /\ open = {} /\ given = [r \in RingObjs |-> NoEnv]
  /\ env = [a \in Addrs |-> NoEnv] /\ caller = [a \in Addrs |-> "main"]
  /\ cache = [a \in Addrs |-> [slave |-> {}, master |-> {}]]
  /\ thread = [t \in Threads |-> IF t = "main" THEN "running" ELSE "none"]
  /\ height = [x \in Threads \cup Addrs |-> 0]
  /\ ctl = <<Frame("master", "main", "none", NoEnv)>>

(***************************************************************************)
(* Rings.                                                                  *)
(***************************************************************************)
KeptCache(a) == cache                                    \* mutant: that of the state that was at the address
NewCache(a) == [cache EXCEPT ![a] = [slave |-> {}, master |-> {}]]

StateNew(r, e) ==
  /\ InMaster /\ ring[r] = "none"
  /\ \E a \in Addrs \ open :
       /\ ring' = [ring EXCEPT ![r] = a] /\ open' = open \cup {a} /\ given' = [given EXCEPT ![r] = e]
       /\ env' = [env EXCEPT ![a] = e] /\ cache' = NewCache(a)
       /\ height' = [height EXCEPT ![a] = 0]
  /\ UNCHANGED <<caller, thread, ctl>>

\* slave_close; of what the addresses lead to, only the environment is forgotten.
SlaveClose(r, to) ==
  /\ ring' = [ring EXCEPT ![r] = to]
  /\ IF ring[r] \in Addrs THEN open' = open \ {ring[r]} /\ env' = [env EXCEPT ![ring[r]] = NoEnv]
     ELSE UNCHANGED <<open, env>>
  /\ UNCHANGED <<given, caller, cache, thread, height, ctl>>
Close(r) == InMaster /\ ring[r] # "none" /\ (Disciplined => ~RunsIn(r)) /\ SlaveClose(r, "closed")
Collected(r) == ring[r] # "none" /\ ~RunsIn(r) /\ SlaveClose(r, "none")          \* __gc

(***************************************************************************)
(* Running strings: dostring.                                              *)
(***************************************************************************)
EnvOf(a, side) == IF side = "master" THEN env[a] ELSE NoEnv
Compiled(a, side, str) ==                                \* compile_string: the cached function, or a new one
  LET old == {f \in cache[a][side] : f.str = str}
  IN IF old # {} THEN old ELSE {[str |-> str, env |-> EnvOf(a, side)]}

\* dst gets traceback, and the function runs in a new frame; or, when it does not
\* compile, the message in its place, both of which are popped.
Dostring(kind, dst, r, a, side, str) ==
  /\ Len(ctl) < MaxDepth
  /\ \/ \E f \in Compiled(a, side, str) :
          /\ cache' = [cache EXCEPT ![a][side] = @ \cup {f}]
          /\ ctl' = Append(ctl, Frame(kind, dst, r, f.env))
          /\ height' = [height EXCEPT ![dst] = @ + 1]
     \/ UNCHANGED <<cache, ctl, height>>

SlaveDostring(r, str) ==
  /\ InMaster /\ ring[r] \in Addrs
  /\ Disciplined => \A i \in Frames("slave") : ctl[i].ring = r => ctl[i - 1].on = Running.on
  /\ caller' = [caller EXCEPT ![ring[r]] = Running.on]   \* also when the string is none: UNCHANGED ctl
  /\ Dostring("slave", ring[r], r, ring[r], "slave", str)
  /\ UNCHANGED <<ring, open, given, env, thread>>

CallsMain(a) == "main"                                   \* mutant: remotedostring knows of no coroutines
CallsBack(a) == caller[a]
MasterDostring(str) ==
  /\ Running.kind = "slave"
  /\ Dostring("remote", CallsBack(Running.on), Running.ring, Running.on, "master", str)
  /\ UNCHANGED <<ring, open, given, env, caller, thread>>

PopsResults(dst, results) == height[dst] + results - results       \* mutant: traceback stays
Popped(dst, results) == height[dst] + results - (results + 1)
\* The code ends with results, or with an error, which takes their place.
Return ==
  /\ Running.kind \in {"slave", "remote"}
  /\ \E results \in 0 .. 2 : height' = [height EXCEPT ![Running.on] = Popped(Running.on, results)]
  /\ ctl' = Front(ctl)
  /\ UNCHANGED <<ring, open, given, env, caller, cache, thread>>

(***************************************************************************)
(* The master's coroutines, and its collector.                             *)
(***************************************************************************)
Resume(t) ==
  /\ InMaster /\ Len(ctl) < MaxDepth
  /\ thread[t] \in {"none", "suspended"}
  /\ thread' = [thread EXCEPT ![t] = "running"]
  /\ height' = [height EXCEPT ![t] = 0]
  /\ ctl' = Append(ctl, Frame("resume", t, "none", NoEnv))
  /\ UNCHANGED <<ring, open, given, env, caller, cache>>
Leave ==                                                 \* not from within a dostring: no yield across pcall
  /\ Running.kind = "resume"
  /\ \E status \in {"suspended", "dead"} : thread' = [thread EXCEPT ![Running.on] = status]
  /\ ctl' = Front(ctl)
  /\ UNCHANGED <<ring, open, given, env, caller, cache, height>>
Unreachable(t) ==
  /\ thread[t] \in {"suspended", "dead"} /\ thread' = [thread EXCEPT ![t] = "none"]
  /\ UNCHANGED <<ring, open, given, env, caller, cache, height, ctl>>
Forget(a, side) ==                                       \* the caches' values are weak
  /\ \E f \in cache[a][side] : cache' = [cache EXCEPT ![a][side] = @ \ {f}]
  /\ UNCHANGED <<ring, open, given, env, caller, thread, height, ctl>>

Next ==
  \/ \E r \in RingObjs :
       \/ \E e \in Envs : StateNew(r, e)
       \/ Close(r) \/ Collected(r)
       \/ \E str \in Strings : SlaveDostring(r, str)
  \/ \E str \in Strings : MasterDostring(str)
  \/ Return \/ Leave
  \/ \E t \in Coroutines : Resume(t) \/ Unreachable(t)
  \/ \E a \in Addrs, side \in {"slave", "master"} : Forget(a, side)

Spec == Init /\ [][Next]_vars

(***************************************************************************)
(* Properties.                                                             *)
(***************************************************************************)
\* A string given to remotedostring runs on the thread of the master that waits for
\* the slave, and in the environment its ring was created with, whatever coroutines
\* came, went and used the ring and whatever rings had its address before.
RunsForCaller ==
  \A i \in Frames("remote") :
    /\ ctl[i].on = ctl[i - 2].on /\ thread[ctl[i].on] = "running"
    /\ ctl[i].env = given[ctl[i].ring]

\* The stack of a state or thread holds what the calls still active on it have put
\* there, and no code runs in a state that was closed.
InBalance ==
  /\ \A x \in Threads \cup Addrs :
       height[x] = Cardinality({i \in Frames("slave") \cup Frames("remote") : ctl[i].on = x})
  /\ \A i \in Frames("slave") : ctl[i].on \in open /\ ring[ctl[i].ring] = ctl[i].on
=============================================================================
