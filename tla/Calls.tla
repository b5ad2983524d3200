-------------------------------- MODULE Calls --------------------------------
(***************************************************************************)
(* Calls, protected calls, errors, hooks and coroutines of the embedded    *)
(* Lua 5.1 (ldo.c with its callers in lapi.c, lvm.c, ldebug.c and          *)
(* lbaselib.c): how the call information of each thread, the limits on     *)
(* nesting and the error handlers keep in step with the C stack, which     *)
(* longjmp cuts and no coroutine has of its own.                           *)
(*                                                                         *)
(* cs is the C stack, an entry for each activation that matters:           *)
(*   "call"    luaD_call, running Lua code or about to run a C function    *)
(*   "cfun"    a C function, which may do whatever lua.h offers            *)
(*   "try"     luaD_pcall, with what it has saved                          *)
(*   "resume"  lua_resume, running Lua code of the coroutine               *)
(* Values are left out: what a step does next is any of what code can do.  *)
(***************************************************************************)
EXTENDS Naturals, Sequences, FiniteSets, SequencesExt

CONSTANTS Thread, Main,
          MaxC, Slack,      \* LUAI_MAXCCALLS and the eighth of it for handlers
          BasicCI, MaxCI,   \* BASIC_CI_SIZE and LUAI_MAXCALLS
          MaxOpen, MaxFrames        \* open upvalues, frames of OP_CALL (bound the model)

LimitsAssumption ==
  /\ Main \in Thread
  /\ MaxC \in Nat \ {0} /\ Slack \in Nat \ {0} /\ BasicCI \in Nat \ {0} /\ MaxCI >= BasicCI

VARIABLES cs,   \* the C stack
          th    \* the lua_State of each thread

vars == <<cs, th>>

(***************************************************************************)
(* A state of the machine, [cs, th], and the parts of it.           *)
(***************************************************************************)
Now == [cs |-> cs, th |-> th]
Become(m) == cs' = m.cs /\ th' = m.th
Top(m) == Last(m.cs)
Running(m) == IF m.cs = <<>> THEN Main ELSE Top(m).t
Depth(m, t) == Len(m.th[t].ci)
InLua(m) == m.cs # <<>> /\ Top(m).k \in {"call", "resume"}
InC(m) == ~InLua(m)

Push(m, e) == [m EXCEPT !.cs = Append(@, e)]
CutTo(m, n) == [m EXCEPT !.cs = SubSeq(@, 1, n)]

NewState == [ci |-> <<>>, size |-> BasicCI, nC |-> 0, baseC |-> 0, hooks |-> TRUE,
             errf |-> FALSE, status |-> "ok", jmp |-> 0, open |-> {}, started |-> FALSE]

CloseNone(m, t, n) == m              \* mutant: luaD_pcall forgets luaF_close

\* luaF_close: no upvalue stays open at or above frame n.
CloseAbove(m, t, n) == [m EXCEPT !.th[t].open = {i \in @ : i <= n}]

(***************************************************************************)
(* Errors.                                                                 *)
(***************************************************************************)
RestoreLimit(s) == IF s.size > MaxCI /\ Len(s.ci) + 1 < MaxCI THEN [s EXCEPT !.size = MaxCI] ELSE s

\* luaD_throw, and what the activation it jumps to does: luaD_pcall takes
\* back what it has saved, lua_resume leaves the thread dead as it is.  The
\* host makes protected calls only: there always is a jump.
Throw(m, t) ==
  LET n == m.th[t].jmp
      e == m.cs[n]
      s == CloseAbove(CutTo(m, n - 1), t, e.ci).th[t]
  IN IF e.k = "try"
     THEN [CutTo(m, n - 1) EXCEPT
             !.th[t] = RestoreLimit([s EXCEPT !.ci = SubSeq(@, 1, e.ci), !.nC = e.nC,
                                              !.hooks = e.hooks, !.errf = e.errf,
                                              !.jmp = e.jmp])]
     ELSE [CutTo(m, n - 1) EXCEPT !.th[t].status = "error", !.th[t].nC = @ - 1,
                                  !.th[t].jmp = e.jmp]

\* inc_ci, growCI: the result of one more frame is the machine, or which
\* error the attempt raises.
CanGrow(s) == Len(s.ci) + 1 < s.size
Grown(s) == [s EXCEPT !.size = 2 * @]

RECURSIVE Call(_, _, _, _), ErrorMsg(_, _, _)

Enter(m, t, kind) ==
  LET s == m.th[t]
      With(r) == [m EXCEPT !.th[t] = [r EXCEPT !.ci = Append(@, kind)]]
      Started(x) == IF kind = "c" THEN Push(x, [k |-> "cfun", t |-> t]) ELSE x
  IN IF CanGrow(s) THEN Started(With(s))
     ELSE IF s.size > MaxCI THEN Throw(m, t)
     ELSE IF Grown(s).size > MaxCI THEN ErrorMsg([m EXCEPT !.th[t] = Grown(s)], t, 0)
     ELSE Started(With(Grown(s)))

\* luaD_call of a function of the kind, for the use `then`; extra counts the
\* failed call that a handler runs on top of.
Call(m, t, kind, use) ==
  LET s == m.th[t]
      n == s.nC + 1
      d == [m EXCEPT !.th[t].nC = n]
  IN IF n = MaxC THEN ErrorMsg(d, t, 1)
     ELSE IF n >= MaxC + Slack THEN Throw(d, t)
     ELSE Enter(Push(d, [k |-> "call", t |-> t, use |-> use.then, n |-> 1 + use.extra,
                         ci |-> Len(s.ci)]), t, kind)

\* luaG_errormsg: the handler runs on top of the frames that failed.
ErrorMsg(m, t, extra) ==
  IF m.th[t].errf THEN Call(m, t, "lua", [then |-> "throw", extra |-> extra])
  ELSE Throw(m, t)

Plain(then) == [then |-> then, extra |-> 0]

(***************************************************************************)
(* Returning.                                                              *)
(***************************************************************************)
Pop(m) == [m EXCEPT !.cs = Front(@)]

LeaveTry(m) ==              \* luaD_pcall without an error
  LET e == Top(m) IN [Pop(m) EXCEPT !.th[e.t].errf = e.errf, !.th[e.t].jmp = e.jmp]

\* What luaD_call and lua_resume do when the function they called is done.
Done(m) ==
  LET e == Top(m)
      p == [Pop(m) EXCEPT !.th[e.t].nC = @ - 1]
  IN CASE e.k = "resume" -> [p EXCEPT !.th[e.t].jmp = e.jmp]
       [] e.k = "call" /\ e.use = "throw" -> Throw(p, e.t)
       [] e.k = "call" /\ e.use = "hook" -> [p EXCEPT !.th[e.t].hooks = TRUE]
       [] e.k = "call" /\ e.use = "try" -> LeaveTry(p)
       [] OTHER -> p

PosCall(m, t) ==            \* luaD_poscall, after OP_RETURN closed the upvalues
  LET n == Depth(m, t) - 1
      p == CloseAbove([m EXCEPT !.th[t].ci = Front(@)], t, n)
  IN IF p.cs # <<>> /\ Top(p).k \in {"call", "resume"} /\ Top(p).ci = n THEN Done(p) ELSE p

(***************************************************************************)
(* What the running code does next.                                        *)
(***************************************************************************)
Runs(t) == t = Running(Now)

Return(t) ==
  /\ Runs(t) /\ cs # <<>>
  /\ Become(PosCall(IF InC(Now) THEN Pop(Now) ELSE Now, t))

CallFromLua(t) ==           \* OP_CALL
  /\ Runs(t) /\ InLua(Now) /\ Depth(Now, t) < MaxFrames
  /\ \E kind \in {"lua", "c"} : Become(Enter(Now, t, kind))

NestedCall(t) ==            \* callTM, and lua_call from C
  /\ Runs(t) /\ cs # <<>>
  /\ \E kind \in {"lua", "c"} : Become(Call(Now, t, kind, Plain("go on")))

\* luaD_callhook: the hook of the debug library calls a Lua function.
Hook(t) ==
  /\ Runs(t) /\ InLua(Now) /\ th[t].hooks
  /\ Become(Call([Now EXCEPT !.th[t].hooks = FALSE], t, "lua", Plain("hook")))

Capture(t) ==               \* luaF_findupval for a local of the running function
  /\ Runs(t) /\ InLua(Now) /\ Cardinality(th[t].open) < MaxOpen
  /\ th' = [th EXCEPT ![t].open = @ \cup {Depth(Now, t)}]
  /\ UNCHANGED cs

Error(t) ==
  /\ Runs(t) /\ cs # <<>>
  /\ Become(ErrorMsg(Now, t, 0))

PCall(t) ==                 \* lua_pcall, with or without a handler
  /\ Runs(t) /\ InC(Now)
  /\ \E handler \in BOOLEAN, kind \in {"lua", "c"} :
       LET s == th[t]
           m == [Push(Now, [k |-> "try", t |-> t, ci |-> Len(s.ci), nC |-> s.nC,
                            hooks |-> s.hooks, errf |-> s.errf, jmp |-> s.jmp,
                            handler |-> handler])
                 EXCEPT !.th[t].errf = handler, !.th[t].jmp = Len(cs) + 1]
       IN Become(Call(m, t, kind, Plain("try")))

Suspended(co) == th[co].status = "yield" \/ (th[co].status = "ok" /\ ~th[co].started)

OwnLevel(t, co) == th[co].nC + 1     \* mutant: no lua_setlevel
Level(t, co) == th[t].nC + 1

Resume(t, co) ==            \* auxresume, lua_setlevel, lua_resume
  /\ Runs(t) /\ cs # <<>> /\ InC(Now) /\ co # t /\ co # Main /\ Suspended(co)
  /\ th[t].nC < MaxC
  /\ LET s == th[co]
         n == Level(t, co)
         r == [s EXCEPT !.nC = n, !.baseC = n, !.jmp = Len(cs) + 1, !.status = "ok",
                        !.started = TRUE,
                        !.ci = IF s.status = "yield" THEN Front(@) ELSE Append(@, "lua")]
         e == [k |-> "resume", t |-> co, ci |-> 0, jmp |-> s.jmp, n |-> 1]
     IN Become([Push(Now, e) EXCEPT !.th[co] = r])

\* lua_yield returns through luaV_execute to lua_resume.
MayYieldLate(s) == ~(s.nC > s.baseC + 1)     \* mutant: one C level too late
MayYield(s) == ~(s.nC > s.baseC)

Yield(t) ==
  /\ Runs(t) /\ cs # <<>> /\ InC(Now)
  /\ IF ~MayYield(th[t]) THEN Become(ErrorMsg(Now, t, 0))
     ELSE LET e == cs[th[t].jmp]
          IN Become([CutTo(Now, th[t].jmp - 1) EXCEPT
                       !.th[t].status = "yield", !.th[t].nC = @ - 1, !.th[t].jmp = e.jmp])

(***************************************************************************)
(* Properties.                                                             *)
(***************************************************************************)
Entries(t, K) == {i \in DOMAIN cs : cs[i].t = t /\ cs[i].k \in K}
Live(t) == th[t].status = "ok"
Levels(n) == FoldLeft(LAMBDA x, e : x + (IF e.k \in {"call", "resume"} THEN e.n ELSE 0),
                      0, SubSeq(cs, 1, n))
LastOf(S) == CHOOSE i \in S \cup {0} : \A j \in S : j <= i

TypeOK ==
  \A t \in Thread :
    /\ th[t].ci \in Seq({"lua", "c"}) /\ Len(th[t].ci) < th[t].size
    /\ th[t].status \in {"ok", "yield", "error"}
    /\ th[t].nC \in 0 .. MaxC + Slack

\* The call information of every live thread is in step with the C stack: a
\* C frame for each C function that is active, open upvalues only in frames
\* that exist, a jump to the innermost protected call or resume of the
\* thread, that call's handler, hooks off only inside a hook.
InStep ==
  /\ TypeOK
  /\ \A t \in Thread : Live(t) =>
       /\ Cardinality(Entries(t, {"cfun"})) = Cardinality({i \in DOMAIN th[t].ci : th[t].ci[i] = "c"})
       /\ \A i \in th[t].open : i \in DOMAIN th[t].ci /\ th[t].ci[i] = "lua"
       /\ th[t].jmp = LastOf(Entries(t, {"try", "resume"}))
       /\ th[t].errf = \E i \in Entries(t, {"try"}) : i = LastOf(Entries(t, {"try"})) /\ cs[i].handler
       /\ th[t].hooks = ~\E i \in Entries(t, {"call"}) : cs[i].use = "hook"

\* nCcalls counts the C levels below, those of the resuming threads
\* included, and the C stack never gets deeper than the limit allows.
DepthIsCounted ==
  /\ \A t \in Thread : Live(t) /\ (th[t].ci # <<>> \/ t = Main) =>
       th[t].nC = Levels(LastOf(Entries(t, {"call", "cfun", "try", "resume"})))
  /\ Levels(Len(cs)) < MaxC + Slack

\* An error or a yield leaves one protected call or resume at most: a
\* protected call gives back the thread as it was, and a yield cuts off no
\* C function but lua_yield's own.
Unwinds ==
  LET cut == {i \in DOMAIN cs : i > Len(cs') /\ cs[i].k \in {"try", "resume"}}
  IN /\ Cardinality(cut) <= 1
     /\ \A i \in cut : cs[i].k = "try" =>
          LET s == th'[cs[i].t] IN
            /\ Len(s.ci) = cs[i].ci /\ s.nC = cs[i].nC /\ s.hooks = cs[i].hooks
            /\ s.errf = cs[i].errf /\ \A f \in s.open : f <= cs[i].ci
     /\ \A t \in Thread : th[t].status = "ok" /\ th'[t].status = "yield" =>
          Len(cs') = Len(cs) - 2
UnwindsToInnermost == [][Unwinds]_vars

Init == cs = <<>> /\ th = [t \in Thread |-> NewState]

Next == \E t \in Thread :
  \/ Return(t) \/ CallFromLua(t) \/ NestedCall(t) \/ Hook(t) \/ Capture(t)
  \/ Error(t) \/ PCall(t) \/ Yield(t) \/ \E co \in Thread : Resume(t, co)

Spec == Init /\ [][Next]_vars
=============================================================================
