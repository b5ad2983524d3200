------------------------------ MODULE Collector ------------------------------
(***************************************************************************)
(* The incremental garbage collector of the embedded Lua 5.1 (lgc.c, with  *)
(* the parts of lfunc.c, lstring.c, lstate.c and lapi.c that allocate,     *)
(* close and barrier), interleaved with the Lua program it works for.      *)
(*                                                                         *)
(* The mutator holds objects in stack slots of running threads and in the  *)
(* table of globals, and stores them in tables, closures, userdata and     *)
(* upvalues.  Abstracted: sizes and the pace of the collector (a step may  *)
(* happen between any two operations), the order of the gray lists, the    *)
(* metatables that hold __mode and __gc (a constant of each object).       *)
(***************************************************************************)
EXTENDS Naturals, Sequences, FiniteSets, SequencesExt, FiniteSetsExt

CONSTANTS Obj,      \* the objects there can be
          Kind,     \* table, string, udata, closure, upval or thread, for each
          Main, Globals,    \* the main thread and the table of globals
          Slots,    \* the stack slots of a thread
          Mode,     \* which of "k" and "v" the __mode of a table has
          HasGC,    \* the userdata with a __gc metamethod
          Hash,     \* the hash of a string
          MinSize,  \* MINSTRTABSIZE
          StepsAtClose,     \* whether finalizers that lua_close calls step the collector
          Worlds,   \* sets of objects a behaviour may create
          Keys,     \* the objects the program uses as keys
          MaxEntries,       \* entries of a table (bounds the model)
          NIL, INT  \* no object; a key that is no object

VARIABLES world,  \* the objects this behaviour may create
          alive,  \* the objects that are allocated
          refs,   \* what a closure, a userdata or a closed upvalue points at
          tab,    \* the entries <<key, value>> of a table
          stack,  \* what the slots of a thread hold
          open,   \* the slot an open upvalue is in, NIL for a closed one
          g,      \* the collector's part of global_State
          tm,     \* the userdata whose finalizer is running, or NIL
          mode,   \* "run"; "sweep", "mark": in luaC_fullgc; "close", "closed"
          ran     \* how often the finalizer of a userdata was called

vars == <<world, alive, refs, tab, stack, open, g, tm, mode, ran>>
heap == <<alive, refs, tab, stack, open>>

Of(kind) == {o \in world : Kind[o] = kind}
Whites == {"white", "dead"}      \* currentwhite and otherwhite

(***************************************************************************)
(* What an object points at.                                               *)
(***************************************************************************)
KeysOf(t) == {e[1] : e \in tab[t]} \ {INT}
ValuesOf(t) == {e[2] : e \in tab[t]}
OnStack(th) == ({stack[th][i] : i \in Slots} \cup (IF th = Main THEN {tm} ELSE {})) \ {NIL}
ValueOf(uv) == IF open[uv] = NIL THEN refs[uv]
               ELSE {stack[open[uv][1]][open[uv][2]]} \ {NIL}

Strong(o) ==
  CASE Kind[o] = "table" -> CASE Mode[o] = {} -> KeysOf(o) \cup ValuesOf(o)
                              [] Mode[o] = {"k"} -> ValuesOf(o)
                              [] Mode[o] = {"v"} -> KeysOf(o)
                              [] OTHER -> {}
    [] Kind[o] = "thread" -> OnStack(o) \cup {Globals}
    [] Kind[o] = "upval" -> ValueOf(o)
    [] OTHER -> refs[o]

All(o) == IF Kind[o] = "table" THEN KeysOf(o) \cup ValuesOf(o) ELSE Strong(o)

RECURSIVE Closure(_)
Closure(S) == LET T == S \cup UNION {Strong(o) : o \in S}
              IN IF T = S THEN S ELSE Closure(T)
Reachable == Closure({Main})

(***************************************************************************)
(* Marking.  A new state of the collector from an old one, as              *)
(* reallymarkobject and propagatemark compute it.                          *)
(***************************************************************************)
IsWhite(c, o) == c.colour[o] \in Whites
IsDead(c, o) == c.colour[o] = "dead"
Paint(c, S, col) == [c EXCEPT !.colour = [o \in world |-> IF o \in S THEN col ELSE @[o]]]
Links(c) == c.gray \cup c.again \cup c.weak

RECURSIVE Mark(_, _)
MarkAll(c, S) == FoldSet(LAMBDA o, d : Mark(d, o), c, S)
Mark(c, o) ==
  IF ~IsWhite(c, o) THEN c ELSE
  CASE Kind[o] = "string" -> Paint(c, {o}, "gray")
    [] Kind[o] = "udata" -> MarkAll(Paint(c, {o}, "black"), refs[o])
    [] Kind[o] = "upval" ->
         MarkAll(Paint(c, {o}, IF open[o] = NIL THEN "black" ELSE "gray"), ValueOf(o))
    [] OTHER -> [Paint(c, {o}, "gray") EXCEPT !.gray = @ \cup {o}]

Traverse(c, o) ==
  LET d == [c EXCEPT !.gray = @ \ {o}] IN
  CASE Kind[o] = "thread" -> MarkAll([d EXCEPT !.again = @ \cup {o}], Strong(o))
    [] Kind[o] = "table" /\ Mode[o] # {} -> MarkAll([d EXCEPT !.weak = @ \cup {o}], Strong(o))
    [] OTHER -> MarkAll(Paint(d, {o}, "black"), Strong(o))

First(S) == CHOOSE o \in S : TRUE     \* the order of a list: any one

RECURSIVE Propagated(_)
Propagated(c) == IF c.gray = {} THEN c
                 ELSE Propagated(Traverse(c, First(c.gray)))

MarkRoot(c) == Mark([c EXCEPT !.gray = {}, !.again = {}, !.weak = {}, !.phase = "propagate"], Main)

NotRemarked(c) == c                 \* mutant: upvalues of dead threads

Remarked(c) ==
  MarkAll(c, UNION {ValueOf(uv) : uv \in {u \in Of("upval") \cap alive :
                                          open[u] # NIL /\ c.colour[u] = "gray"}})
AgainFrom(c, list) == Propagated([c EXCEPT !.gray = @ \cup list])
WeakAgain(c, L) == LET d == [c EXCEPT !.weak = {}] IN AgainFrom(Mark(d, L), c.weak)
GrayAgain(c) == AgainFrom([c EXCEPT !.again = {}], c.again)

SeparatedTwice(c, all) ==           \* mutant: FINALIZEDBIT is not set
  LET Calls(u) == (IsWhite(c, u) \/ all) /\ u \in HasGC
  IN [c EXCEPT !.udatas = SelectSeq(@, LAMBDA u : ~Calls(u)),
               !.tmu = @ \o SelectSeq(c.udatas, Calls)]

Separated(c, all) ==
  LET ToTM(u) == (IsWhite(c, u) \/ all) /\ u \notin c.fin
      Calls(u) == ToTM(u) /\ u \in HasGC
  IN [c EXCEPT !.fin = @ \cup {u \in ToSet(c.udatas) : ToTM(u)},
               !.udatas = SelectSeq(@, LAMBDA u : ~Calls(u)),
               !.tmu = @ \o SelectSeq(c.udatas, Calls)]
MarkTMU(c) == Propagated(MarkAll(Paint(c, ToSet(c.tmu), "white"), ToSet(c.tmu)))

IsCleared(c, o, isKey) ==
  /\ o # INT
  /\ Kind[o] # "string"
  /\ IsWhite(c, o) \/ (Kind[o] = "udata" /\ ~isKey /\ o \in c.fin)
Cleared(c, e) == IsCleared(c, e[1], TRUE) \/ IsCleared(c, e[2], FALSE)
StringsIn(c) == {o \in UNION {All(t) : t \in c.weak} : Kind[o] = "string"}

(***************************************************************************)
(* Barriers.                                                               *)
(***************************************************************************)
BarrierF(c, o, v) ==        \* luaC_barrier, luaC_objbarrier
  IF ~(c.colour[o] = "black" /\ IsWhite(c, v)) THEN c
  ELSE IF c.phase = "propagate" THEN Mark(c, v) ELSE Paint(c, {o}, "white")
BarrierNone(c, t, S) == c           \* mutant: no barrier

BarrierBack(c, t, S) ==     \* luaC_barriert for the values of S
  IF c.colour[t] = "black" /\ \E v \in S : IsWhite(c, v)
  THEN [Paint(c, {t}, "gray") EXCEPT !.again = @ \cup {t}] ELSE c

(***************************************************************************)
(* The program: allocation, assignment, closures and their upvalues.       *)
(***************************************************************************)
InGlobals == ValuesOf(Globals) \cup {Globals}
Running == {Main} \cup {th \in OnStack(Main) \cup InGlobals : Kind[th] = "thread"}
Held == UNION {OnStack(th) : th \in Running} \cup InGlobals
Free(th, i) == stack[th][i] = NIL
Put(th, i, v) == stack' = [stack EXCEPT ![th][i] = v]
Fresh(o) == o \in world \ alive
CanRun == mode \in {"run", "close"}
EmptyStack == [i \in Slots |-> NIL]

New(o, th, i) ==            \* luaC_link, luaS_newudata
  /\ Fresh(o) /\ Kind[o] \notin {"string", "upval"} /\ Free(th, i)
  /\ \E R \in SUBSET Held :
       /\ R = {} \/ (Kind[o] = "udata" /\ Cardinality(R) = 1)
       /\ \A r \in R : Kind[r] = "table"
       /\ refs' = [refs EXCEPT ![o] = R]
  /\ alive' = alive \cup {o}
  /\ Put(th, i, o)
  /\ g' = [Paint(g, {o}, "white") EXCEPT
             !.fin = @ \ {o},
             !.udatas = IF Kind[o] = "udata" THEN <<o>> \o @ ELSE @]
  /\ ran' = [ran EXCEPT ![o] = 0]
  /\ UNCHANGED <<world, tab, open, tm, mode>>

Resized(c, size) == IF c.phase = "sweepstring" THEN c ELSE [c EXCEPT !.size = size]
Strings == Of("string") \cap alive

Intern(s, th, i) ==         \* luaS_newlstr
  /\ Kind[s] = "string" /\ s \in world /\ Free(th, i)
  /\ Put(th, i, s)
  /\ alive' = alive \cup {s}
  /\ g' = IF s \in alive THEN IF IsDead(g, s) THEN Paint(g, {s}, "white") ELSE g
          ELSE LET c == Paint(g, {s}, "white")
               IN IF Cardinality(Strings) + 1 > c.size THEN Resized(c, 2 * c.size) ELSE c
  /\ UNCHANGED <<world, refs, tab, open, tm, mode, ran>>

\* OP_CLOSURE: the upvalue is the open one of that slot, a new one, or one
\* of the enclosing function.
FindUpval(th, i) == {u \in Of("upval") \cap alive : open[u] = <<th, i>>}

NewClosure(c, th, i, co, from) ==
  /\ Fresh(c) /\ Kind[c] = "closure" /\ Free(th, i)
  /\ stack[co][from] # NIL
  /\ LET found == FindUpval(co, from) IN
     \E u \in IF found # {} THEN found ELSE Of("upval") \ alive :
       /\ refs' = [refs EXCEPT ![c] = {u}]
       /\ open' = [open EXCEPT ![u] = <<co, from>>]
       /\ alive' = alive \cup {c, u}
       /\ g' = Paint(g, {c} \cup (IF u \notin alive \/ IsDead(g, u) THEN {u} ELSE {}), "white")
  /\ Put(th, i, c)
  /\ UNCHANGED <<world, tab, tm, mode, ran>>

\* The state after luaF_close for the upvalues U: the dead ones are freed.
Forget(F) ==
  /\ alive' = alive \ F
  /\ tab' = [t \in DOMAIN tab |-> IF t \in F THEN {} ELSE tab[t]]

LinkGray(c, u) ==                   \* mutant: closed while sweeping, stays gray
  IF c.colour[u] = "gray" /\ c.phase = "propagate"
  THEN MarkAll(Paint(c, {u}, "black"), ValueOf(u)) ELSE c

LinkUpval(c, u) ==
  IF c.colour[u] # "gray" THEN c
  ELSE IF c.phase = "propagate" THEN MarkAll(Paint(c, {u}, "black"), ValueOf(u))
  ELSE Paint(c, {u}, "white")

Pop(th, i) ==               \* the slot goes out of scope: luaF_close
  /\ stack[th][i] # NIL
  /\ LET U == FindUpval(th, i)
         F == {u \in U : IsDead(g, u)} IN
     /\ Forget(F)
     /\ refs' = [o \in DOMAIN refs |-> IF o \in U \ F THEN ValueOf(o) ELSE refs[o]]
     /\ open' = [u \in DOMAIN open |-> IF u \in U THEN NIL ELSE open[u]]
     /\ g' = [FoldSet(LAMBDA u, c : LinkUpval(c, u), Paint(g, F, "white"), U \ F) EXCEPT !.unswept = @ \ U]
  /\ Put(th, i, NIL)
  /\ UNCHANGED <<world, tm, mode, ran>>

GetField(t, e, th, i) ==    \* an indexing, or next, which returns the key
  /\ Free(th, i)
  /\ \E v \in {e[1], e[2]} \ {INT} : Put(th, i, v)
  /\ UNCHANGED <<world, alive, refs, tab, open, g, tm, mode, ran>>

SetField(t, k, v) ==        \* luaV_settable with the barriers of luaH_set
  /\ tab' = [tab EXCEPT ![t] = {e \in @ : e[1] # k} \cup {<<k, v>>}]
  /\ Cardinality(tab'[t]) <= MaxEntries
  /\ g' = BarrierBack(g, t, {v} \cup (IF k \in KeysOf(t) THEN {} ELSE {k} \ {INT}))
  /\ UNCHANGED <<world, alive, refs, stack, open, tm, mode, ran>>

ClearField(t, e) ==
  /\ tab' = [tab EXCEPT ![t] = @ \ {e}]
  /\ UNCHANGED <<world, alive, refs, stack, open, g, tm, mode, ran>>

SetRef(o, v) ==             \* lua_setfenv, lua_setmetatable of a userdata
  /\ Kind[o] = "udata" /\ Kind[v] = "table"
  /\ refs' = [refs EXCEPT ![o] = {v}]
  /\ g' = BarrierF(g, o, v)
  /\ UNCHANGED <<world, alive, tab, stack, open, tm, mode, ran>>

UpvalsHeld == UNION {{u \in refs[c] : Kind[u] = "upval"} :
                     c \in {d \in Held : Kind[d] = "closure"}}

GetUpval(u, th, i) ==
  /\ Free(th, i)
  /\ \E v \in ValueOf(u) : Put(th, i, v)
  /\ UNCHANGED <<world, alive, refs, tab, open, g, tm, mode, ran>>

SetUpval(u, v) ==           \* OP_SETUPVAL
  /\ IF open[u] = NIL THEN refs' = [refs EXCEPT ![u] = {v}] /\ UNCHANGED stack
     ELSE Put(open[u][1], open[u][2], v) /\ UNCHANGED refs
  /\ g' = BarrierF(g, u, v)
  /\ UNCHANGED <<world, alive, tab, open, tm, mode, ran>>

Mutate ==                   \* on what the program holds
  /\ CanRun
  /\ \/ \E th \in Running, i \in Slots, o \in world :
          New(o, th, i) \/ Intern(o, th, i) \/ \E co \in Running, from \in Slots : NewClosure(o, th, i, co, from)
     \/ \E th \in Running, i \in Slots : Pop(th, i)
     \/ \E t \in {x \in Held : Kind[x] = "table"} :
          \/ \E e \in tab[t] : ClearField(t, e) \/ \E th \in Running, i \in Slots : GetField(t, e, th, i)
          \/ \E k \in (Held \cap Keys) \cup {INT}, v \in Held : SetField(t, k, v)
     \/ \E o, v \in Held : SetRef(o, v)
     \/ \E u \in UpvalsHeld :
          \/ \E th \in Running, i \in Slots : GetUpval(u, th, i)
          \/ \E v \in Held : SetUpval(u, v)

(***************************************************************************)
(* The collector: singlestep, luaC_fullgc and lua_close.                   *)
(***************************************************************************)
CanStep == mode \in {"run", "sweep", "mark"} \/ (mode = "close" /\ StepsAtClose /\ tm # NIL)

StartCycle ==
  /\ g.phase = "pause" /\ CanStep /\ CanRun
  /\ g' = MarkRoot(g)
  /\ UNCHANGED <<world, heap, tm, mode, ran>>

PropagateMark ==
  /\ g.phase = "propagate" /\ CanStep
  /\ g.gray # {} /\ g' = Traverse(g, First(g.gray))
  /\ UNCHANGED <<world, heap, tm, mode, ran>>

Flipped(c) == Paint(c, {o \in alive \ ToSet(c.tmu) : c.colour[o] = "white"}, "dead")

BeginSweep(c) == [c EXCEPT !.phase = "sweepstring", !.chain = 0,
                           !.gray = {}, !.again = {}, !.weak = {},
                           !.unswept = alive \ ToSet(c.tmu)]

Atomic ==
  /\ g.phase = "propagate" /\ g.gray = {} /\ CanStep
  /\ \E L \in Running :
       LET c == MarkTMU(Separated(GrayAgain(WeakAgain(Propagated(Remarked(g)), L)), FALSE))
       IN /\ tab' = [t \in DOMAIN tab |->
                       IF t \in c.weak THEN {e \in tab[t] : ~Cleared(c, e)} ELSE tab[t]]
          /\ g' = BeginSweep(Flipped(Paint(c, StringsIn(c) \cap {s \in world : IsWhite(c, s)}, "gray")))
  /\ UNCHANGED <<world, alive, refs, stack, open, tm, mode, ran>>

ChainOf(s) == Hash[s] % g.size

SweepString ==
  /\ g.phase = "sweepstring" /\ CanStep
  /\ LET S == {s \in Strings \cap g.unswept : ChainOf(s) = g.chain}
         F == {s \in S : IsDead(g, s)} IN
     /\ Forget(F)
     /\ g' = [Paint(Paint(g, F, "white"), S \ F, "white") EXCEPT
                !.unswept = @ \ S,
                !.chain = @ + 1,
                !.phase = IF g.chain + 1 >= g.size THEN "sweep" ELSE @]
  /\ UNCHANGED <<world, refs, stack, open, tm, mode, ran>>

\* Where an object is in the list of all objects: a new one comes first, a
\* userdata after the main thread.
Place(o) == CASE o = Globals -> 2 [] o = Main -> 3 [] Kind[o] = "udata" -> 4 [] OTHER -> 1
NextSwept ==
  LET S == {x \in g.unswept : Kind[x] # "string" /\ (Kind[x] = "upval" => open[x] = NIL)}
      front == {x \in S : \A y \in S : Place(x) <= Place(y)}
  IN IF mode \in {"sweep", "mark"} /\ front # {} THEN {First(front)} ELSE front
Sweep(o) ==                 \* sweeplist, with the open upvalues of a thread
  /\ g.phase = "sweep" /\ CanStep /\ o \in NextSwept
  /\ LET U == IF Kind[o] = "thread" THEN UNION {FindUpval(o, i) : i \in Slots} ELSE {}
         F == {x \in {o} \cup U : IsDead(g, x) /\ x # Main}
         Closed == IF o \in F THEN U ELSE F
     IN /\ Forget(F)
        /\ refs' = [x \in DOMAIN refs |-> IF x \in F THEN {}
                                          ELSE IF x \in Closed THEN ValueOf(x) ELSE refs[x]]
        /\ open' = [u \in DOMAIN open |-> IF u \in Closed THEN NIL ELSE open[u]]
        /\ stack' = [th \in DOMAIN stack |-> IF th \in F THEN EmptyStack ELSE stack[th]]
        /\ g' = [Paint(Paint(g, F, "white"), ({o} \cup U) \ F, "white") EXCEPT
                   !.unswept = @ \ ({o} \cup U),
                   !.udatas = SelectSeq(@, LAMBDA u : u \notin F)]
  /\ UNCHANGED <<world, tm, mode, ran>>

EndSweep ==                 \* with checkSizes
  /\ g.phase = "sweep" /\ CanStep
  /\ \A x \in g.unswept : Kind[x] = "string"
  /\ LET c == [g EXCEPT !.phase = "finalize"]
     IN g' = IF Cardinality(Strings) < c.size \div 4 /\ c.size > 2 * MinSize
             THEN Resized(c, c.size \div 2) ELSE c
  /\ mode' = IF mode = "mark" THEN "run" ELSE mode
  /\ UNCHANGED <<world, heap, tm, ran>>

\* GCTM: the finalizer runs as a part of the program, from a stack slot.
CallTM ==
  /\ g.tmu # <<>> /\ tm = NIL
  /\ (g.phase = "finalize" /\ mode = "run") \/ mode = "close"
  /\ LET u == Head(g.tmu) IN
     /\ g' = [Paint(g, {u}, "white") EXCEPT !.tmu = Tail(@), !.udatas = <<u>> \o @]
     /\ ran' = [ran EXCEPT ![u] = @ + 1]
     /\ tm' = u
  /\ UNCHANGED <<world, heap, mode>>

EndTM ==
  /\ CanRun /\ tm # NIL /\ tm' = NIL
  /\ UNCHANGED <<world, heap, g, mode, ran>>

EndCycle ==
  /\ g.phase = "finalize" /\ g.tmu = <<>> /\ CanStep /\ CanRun
  /\ g' = [g EXCEPT !.phase = "pause"]
  /\ UNCHANGED <<world, heap, tm, mode, ran>>

FullGC ==                   \* collectgarbage()
  /\ mode = "run"
  /\ mode' = "sweep"
  /\ g' = IF g.phase \in {"pause", "propagate"} THEN BeginSweep(g) ELSE g
  /\ UNCHANGED <<world, heap, tm, ran>>

FullMark ==
  /\ mode = "sweep" /\ g.phase = "finalize"
  /\ mode' = "mark"
  /\ g' = MarkRoot(g)
  /\ UNCHANGED <<world, heap, tm, ran>>

Close ==                    \* lua_close: no finalizer is left uncalled
  /\ mode = "run" /\ OnStack(Main) = {}
  /\ mode' = "close"
  /\ g' = LET c == Separated(g, TRUE) IN [c EXCEPT !.unswept = @ \ ToSet(c.tmu)]
  /\ UNCHANGED <<world, heap, tm, ran>>

FreeAll ==
  /\ mode = "close" /\ g.tmu = <<>> /\ tm = NIL
  /\ mode' = "closed"
  /\ alive' = {}
  /\ g' = [g EXCEPT !.unswept = {}]
  /\ UNCHANGED <<world, refs, tab, stack, open, tm, ran>>

Collect == StartCycle \/ PropagateMark \/ Atomic \/ SweepString \/ (\E o \in world : Sweep(o))
           \/ EndSweep \/ CallTM \/ EndTM \/ EndCycle \/ FullMark

Init ==                     \* lua_newstate
  /\ world \in Worlds
  /\ alive = {Main, Globals} /\ mode = "run" /\ tm = NIL
  /\ refs = [o \in world |-> {}] /\ tab = [t \in Of("table") |-> {}]
  /\ stack = [th \in Of("thread") |-> EmptyStack] /\ open = [u \in Of("upval") |-> NIL]
  /\ ran = [u \in world |-> 0]
  /\ g = [colour |-> [o \in world |-> "white"], phase |-> "pause",
          gray |-> {}, again |-> {}, weak |-> {}, unswept |-> {}, size |-> MinSize,
          chain |-> 0, udatas |-> <<>>, tmu |-> <<>>, fin |-> {}]

(***************************************************************************)
(* Properties.                                                             *)
(***************************************************************************)
TypeOK ==
  /\ alive \subseteq world
  /\ \A o \in world : refs[o] \subseteq world /\ ran[o] \in 0 .. 1
  /\ \A u \in DOMAIN open : open[u] = NIL \/ open[u] \in Of("thread") \X Slots
  /\ g.phase \in {"pause", "propagate", "sweepstring", "sweep", "finalize"}
  /\ g.unswept \subseteq alive /\ g.fin \subseteq Of("udata")

\* Whatever the program can reach, weak entries and userdata that wait for
\* their finalizer included, is allocated and not about to be swept.
NoDangling ==
  mode # "closed" =>
    \A o \in Closure({Main} \cup ToSet(g.tmu)) :
      o \in alive /\ All(o) \subseteq alive /\ ~IsDead(g, o)

\* While marking, no black object points at a white one and each gray
\* object waits in exactly one list; between cycles every object is white,
\* and has the white the next cycle takes for unmarked.
MarksSound ==
  /\ TypeOK
  /\ g.phase = "propagate" /\ mode # "close" /\ mode # "closed" =>
       /\ Links(g) \subseteq alive
       /\ Cardinality(Links(g)) =
            Cardinality(g.gray) + Cardinality(g.again) + Cardinality(g.weak)
       /\ \A o \in alive \ ToSet(g.tmu) :
            /\ g.colour[o] = "black" => \A x \in Strong(o) : ~IsWhite(g, x)
            /\ g.colour[o] = "gray" /\ Kind[o] \notin {"string", "upval"} => o \in Links(g)
  /\ g.phase \in {"pause", "finalize"} =>
       \A o \in alive \ ToSet(g.tmu) : g.colour[o] = "white"

\* So it is in every phase: the graph of the objects and the marks on it.
HeapSound == NoDangling /\ MarksSound

\* A finalizer is called at most once, only for a userdata the program has
\* no way to reach (unless the state is closed), and before it is freed.
FinalizersSound ==
  [][\A u \in HasGC \cap alive :
       /\ u \in ToSet(g'.tmu) \ ToSet(g.tmu) /\ mode' = "run" => u \notin Reachable
       /\ ran'[u] <= 1
       /\ u \notin alive' /\ mode # "close" => ran[u] = 1
       /\ mode' = "closed" /\ u \in g.fin => ran[u] = 1]_vars

\* A full collection leaves no garbage: no list, mark or barrier of the
\* cycle it interrupts makes it miss an object.
FullGCIsComplete ==
  [][mode = "mark" /\ mode' = "run" =>
       \A o \in alive :
          \/ o \in Closure({Main} \cup ToSet(g.tmu))
          \/ Kind[o] = "string" /\ \E t \in Of("table") : o \in All(t)]_vars

\* And every cycle comes to its finalizers, whatever the program allocates
\* and stores meanwhile, and however often it asks for a full collection.
GarbageIsCollected ==
  FullGCIsComplete /\ []<>(g.phase = "finalize" \/ mode \in {"close", "closed"})

Next == Mutate \/ Collect \/ FullGC \/ Close \/ FreeAll

\* The debt that allocation builds up makes luaC_step come again and again:
\* weak fairness of Collect, which is always enabled until the state closes.
Fairness == []<>(mode \in {"close", "closed"}) \/ []<><<Collect>>_vars

Spec == Init /\ [][Next]_vars /\ Fairness
=============================================================================
