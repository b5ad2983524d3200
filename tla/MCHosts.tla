-------------------------------- MODULE MCHosts --------------------------------
(***************************************************************************)
(* The Lua states a server hosts and the sockets it serves: the pool of    *)
(* states of an application (RingPool), a master state and its slaves      *)
(* (Rings), and the timed calls of LuaSocket (Sockets), side by side.      *)
(* They share no state: a behaviour moves one of them (part), and the      *)
(* others stay in their first state.                                       *)
(***************************************************************************)
EXTENDS RingPool

CONSTANTS RingObjs, Addrs, Coroutines, Envs, Strings, MaxDepth, Disciplined,    \* slave states
          o1, o2, Objs, Fds, Kinds, Timed, Blocks, Totals, Selects, MaxTime, MaxPending

VARIABLES part,
          ring, open, given, environment, caller, cache, thread, height, ctl,
          obj, sys, clock, call

Slaves == INSTANCE Rings WITH env <- environment
Net == INSTANCE Sockets

ASSUME SlavesAssumption == Slaves!RingsAssumption
ASSUME NetAssumption == Net!SocketsAssumption

(***************************************************************************)
(* One part moves.                                                         *)
(***************************************************************************)
MCInit == part \in {"pool", "slaves", "sockets"} /\ Init /\ Slaves!Init /\ Net!Init

\* What is not of p stays.
Still(p) ==
  /\ UNCHANGED part
  /\ IF p = "pool" THEN TRUE ELSE UNCHANGED vars
  /\ IF p = "slaves" THEN TRUE ELSE UNCHANGED <<ring, open, given, environment, caller, cache, thread, height, ctl>>
  /\ IF p = "sockets" THEN TRUE ELSE UNCHANGED <<obj, sys, clock, call>>

MCNext ==
  \/ part = "pool" /\ Next /\ Still("pool")
  \/ part = "slaves" /\ Slaves!Next /\ Still("slaves")
  \/ part = "sockets" /\ Net!Next /\ Still("sockets")

MCSpec == MCInit /\ [][MCNext]_<<part, vars, ring, open, given, environment, caller, cache, thread, height, ctl,
                                 obj, sys, clock, call>>

(***************************************************************************)
(* Properties of the parts; the pool's are Exclusive and NoLeak, which     *)
(* hold of its first state too.                                            *)
(***************************************************************************)
\* A remote string runs on the thread that waits for its slave and in its ring's environment,
\* and every stack holds what the active calls put there.
RunsInPlace == part = "slaves" => Slaves!RunsForCaller /\ Slaves!InBalance

\* Every open system socket is one object's own, and a call keeps its timeouts.
SocketsSound == part = "sockets" => Net!Owned /\ Net!KeepsTime

\* select reports what is there at its end, and "timeout" only after the time asked.
SelectsSound == [][part = "sockets" => Net!SelectReturned]_<<part, obj, sys, clock, call>>

(***************************************************************************)
(* Calls of select, and timeouts.                                          *)
(***************************************************************************)
MCSelects == [r : {{o1, o2}}, w : {{}, {o2}}, t : {-1, 1}] \cup [r : {{}}, w : {{o1}}, t : {0, 1}]
MCBlocks == {-1, 0, 1}
MCTotals == {-1, 2}
================================================================================
