------------------------------ MODULE RingPool ------------------------------
(***************************************************************************)
(* WSAPI applications in isolated Lua states: the pool of states of one    *)
(* application file (wsapi/common.lua), the function that runs a request   *)
(* in a state (wsapi/ringer.lua) and the writing of its response           *)
(* (wsapi/xavante.lua).                                                    *)
(*                                                                         *)
(* Requests are coroutines of Copas.  One gives way to the others while it *)
(* reads its input or writes a part of the response; what it does in a     *)
(* state in between is one step.  The application, run by the state's      *)
(* main_coro, may do anything the constants allow.                         *)
(***************************************************************************)
EXTENDS Integers, Sequences, FiniteSets, Functions

CONSTANTS
  Request,      \* the coroutines that serve requests for the file
  Ring,         \* the Lua states
  MaxMtime,     \* bound on the modifications of the file
  Reload,       \* whether handlers are made with reload, without, or of both kinds
  NoStatus,     \* applications may return no status
  NIL

ASSUME RingPoolAssumption ==
  /\ MaxMtime \in Nat
  /\ Reload \subseteq BOOLEAN /\ NoStatus \in BOOLEAN
  /\ NIL \notin Request \cup Ring \cup Nat

VARIABLES
  mtime,       \* of the file
  pool,        \* app_states[filename]: mtime and states
  busy,        \* the rings whose data.status is not nil
  env,         \* data.env of a ring: a request
  main, at,    \* main_coro of a ring: the request it was started for, and where
               \* it is: app, body, end
  pc, on       \* a request: idle, reading input, sending the body; and its ring

rings == <<busy, env, main, at>>
vars  == <<mtime, pool, rings, pc, on>>

Init == /\ mtime = 0
        /\ pool = [mtime |-> NIL, states |-> <<>>]
        /\ busy = {} /\ env = [r \in Ring |-> NIL]
        /\ main = [r \in Ring |-> NIL] /\ at = [r \in Ring |-> "end"]
        /\ pc = [q \in Request |-> "idle"] /\ on = [q \in Request |-> NIL]
-----------------------------------------------------------------------------
\* Running main_coro until it yields: what dostring returns (flag), what became of
\* data.status and where the coroutine is then.
Yields == [flag : {"RECEIVE", "RECEIVE nil", "SEND", "SEND nil", "error"},
           status : {"kept", "set", "nil"},
           next : {"app", "body", "end"}]

\* A read names a number of bytes, or none.
Read(y) == y.flag \in {"RECEIVE", "RECEIVE nil"}

\* main_func calls the application, assigns its status and asks for the first part.
AppYields == {y \in Yields :
  \/ Read(y) /\ y.status = "kept" /\ y.next = "app"
  \/ /\ y.status = "set" \/ (NoStatus /\ y.status = "nil")
     /\ \/ y.flag = "SEND" /\ y.next = "body"
        \/ y.flag = "SEND nil" /\ y.next = "end"
  \/ y.flag = "error" /\ y.status = "kept" /\ y.next = "end"}

BodyYields == {y \in Yields :
  /\ y.status = "kept"
  /\ \/ (Read(y) \/ y.flag = "SEND") /\ y.next = "body"
     \/ y.flag \in {"SEND nil", "error"} /\ y.next = "end"}

\* A coroutine that has ended cannot be resumed.
EndYields == {[flag |-> "error", status |-> "kept", next |-> "end"]}

YieldsFrom(stage) == CASE stage = "app"  -> AppYields
                       [] stage = "body" -> BodyYields
                       [] stage = "end"  -> EndYields

Assigned(used, r, y) == CASE y.status = "set"  -> used \cup {r}
                          [] y.status = "nil"  -> used \ {r}
                          [] y.status = "kept" -> used

\* (The variant that clears nothing after an error.)
ReleaseUnlessError(used, r, y) == IF y.flag = "error" THEN used ELSE used \ {r}

\* data.status = nil; headers and env follow.
Release(used, r, y) == used \ {r}

\* (The variant that stays with the ring.)
StayOn(q, r) == on' = [on EXCEPT ![q] = r]

LeaveRing(q, r) == on' = [on EXCEPT ![q] = NIL]

Serve(q, r, where) == /\ pc' = [pc EXCEPT ![q] = where]
                      /\ on' = [on EXCEPT ![q] = r]

\* ringer's function goes on until it waits for input or returns.  A response
\* without any part has no iterator that would clear the state's data.
Respond(q, r, used, y) ==
  \/ /\ y.flag \in {"RECEIVE", "RECEIVE nil"}
     /\ Serve(q, r, "reading")
     /\ busy' = used
  \/ /\ y.flag = "SEND"
     /\ Serve(q, r, "sending")
     /\ busy' = Assigned(used, r, y)
  \/ /\ y.flag = "SEND nil"
     /\ pc' = [pc EXCEPT ![q] = "idle"] /\ LeaveRing(q, r)
     /\ busy' = Assigned(used, r, y)
  \/ /\ y.flag = "error"
     /\ pc' = [pc EXCEPT ![q] = "idle"] /\ LeaveRing(q, r)
     /\ busy' = Release(used, r, y)

\* Rings that nobody holds any more are collected.
Fresh == Ring \ (Range(pool.states) \cup Range(on))

\* (The variant that takes any state of the pool.)
AnyState == DOMAIN pool.states

\* Where the pool has states that are not in use.
FreeStates == {i \in DOMAIN pool.states : pool.states[i] \notin busy}

\* load_wsapi_isolated: the first free state of the pool, or a new one.  A pool is for
\* one modification time; with reload the state is put in no pool.
Load(r, reload) ==
  \/ /\ ~reload /\ pool.mtime = mtime /\ FreeStates # {}
     /\ \E i \in FreeStates : r = pool.states[i] /\ \A j \in FreeStates : i <= j
     /\ UNCHANGED pool
  \/ /\ ~reload /\ pool.mtime = mtime /\ FreeStates = {}
     /\ r \in Fresh
     /\ pool' = [pool EXCEPT !.states = Append(@, r)]
  \/ /\ ~reload /\ pool.mtime # mtime
     /\ r \in Fresh
     /\ pool' = [mtime |-> mtime, states |-> <<r>>]
  \/ /\ reload
     /\ r \in Fresh
     /\ UNCHANGED pool

\* wsapi_loader_isolated_helper: load a state and run the request in it.  (That
\* the state is not in use, ringer.lua:121-123, the pool has just seen.)
Enter(q) ==
  /\ pc[q] = "idle"
  /\ \E r \in Ring, y \in YieldsFrom("app"), reload \in Reload :
       /\ Load(r, reload)
       /\ main' = [main EXCEPT ![r] = q] /\ at' = [at EXCEPT ![r] = y.next]
       /\ env' = [env EXCEPT ![r] = IF y.flag = "error" THEN NIL ELSE q]
       /\ Respond(q, r, busy \cup {r}, y)
  /\ UNCHANGED mtime

\* The input has been read; the application goes on with it.
InputRead(q) ==
  /\ pc[q] = "reading"
  /\ LET r == on[q] IN \E y \in YieldsFrom(at[r]) :
       /\ at' = [at EXCEPT ![r] = y.next]
       /\ env' = [env EXCEPT ![r] = IF y.flag = "error" THEN NIL ELSE @]
       /\ Respond(q, r, busy, y)
  /\ UNCHANGED <<mtime, pool, main>>

\* A part of the response has been written, or input for it read: the iterator goes
\* on.  It ends, and clears the state's data, when there is no further part, at an
\* error, and when a read names no count.
BodyGoesOn(q) ==
  /\ pc[q] = "sending"
  /\ LET r == on[q] IN \E y \in YieldsFrom(at[r]) :
       /\ at' = [at EXCEPT ![r] = y.next]
       /\ \/ /\ y.flag \in {"SEND", "RECEIVE"}
             /\ busy' = Assigned(busy, r, y)
             /\ UNCHANGED <<env, pc, on>>
          \/ /\ y.flag \in {"SEND nil", "RECEIVE nil", "error"}
             /\ busy' = Release(busy, r, y) /\ env' = [env EXCEPT ![r] = NIL]
             /\ pc' = [pc EXCEPT ![q] = "idle"] /\ LeaveRing(q, r)
  /\ UNCHANGED <<mtime, pool, main>>

Touch == /\ mtime < MaxMtime
         /\ mtime' = mtime + 1
         /\ UNCHANGED <<pool, rings, pc, on>>

Next == \/ \E q \in Request : Enter(q) \/ InputRead(q) \/ BodyGoesOn(q)
        \/ Touch

Spec == Init /\ [][Next]_vars
-----------------------------------------------------------------------------
TypeOK ==
  /\ mtime \in 0..MaxMtime
  /\ pool \in [mtime : 0..MaxMtime \cup {NIL}, states : Seq(Ring)]
  /\ busy \subseteq Ring /\ env \in [Ring -> Request \cup {NIL}]
  /\ main \in [Ring -> Request \cup {NIL}] /\ at \in [Ring -> {"app", "body", "end"}]
  /\ pc \in [Request -> {"idle", "reading", "sending"}]
  /\ on \in [Request -> Ring \cup {NIL}]
  /\ \A q \in Request : on[q] = NIL <=> pc[q] = "idle"

\* A request has its state to itself until it is done: the state is marked as in
\* use, its environment and its coroutine are the request's, and no other request
\* runs in it, whatever the requests wait for in between (ringer.lua:121-137,
\* common.lua:343-348).
OwnsRing(q) == on[q] # NIL => /\ on[q] \in busy
                              /\ env[on[q]] = q /\ main[on[q]] = q
Exclusive == \A q \in Request : OwnsRing(q)

\* States come back to the pool (ringer.lua:116-119, 166): one that is marked as in
\* use is used by a request, unless a response without any part was made in it.
\* What clears the mark then is never called: main_coro is at its end and the
\* environment still there (ringer.lua:144-145).
NoLeak ==
  \A r \in busy \cap Range(pool.states) :
    (\E q \in Request : on[q] = r) \/ (at[r] = "end" /\ env[r] # NIL)
=============================================================================
