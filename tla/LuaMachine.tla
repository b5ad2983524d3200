------------------------------- MODULE LuaMachine -------------------------------
(***************************************************************************)
(* Lua 5.1 programs compiled and run: the machine of lvm.c with the calls  *)
(* of ldo.c and the upvalues of lfunc.c, on the code LuaCompile makes.     *)
(*                                                                         *)
(* The machine m has the stack, its top, the frames (ci), the upvalues (at *)
(* is the register of an open one, -1 when closed), the closures, the      *)
(* tables (the first holds the globals) and what the program has shown by  *)
(* calling the C function emit, which returns its arguments.  Values have  *)
(* no metatables.                                                          *)
(***************************************************************************)
EXTENDS LuaCompile

CONSTANTS Programs,       \* texts of main functions
          StackSize

VARIABLES program,        \* its text, then its code and what the text means too
          m               \* the machine

vars == <<program, m>>

Ref == INSTANCE LuaReference

Compiled(text) == [text |-> text, code |-> Compile(text), meaning |-> Ref!Outcome(text)]

(***************************************************************************)
(* The checker of compiled code (luaG_checkcode in ldebug.c), applied to   *)
(* code that is loaded.                                                    *)
(***************************************************************************)
\* luaP_opmodes: the modes of the arguments b and c: a register, a register or
\* constant, unused, anything.
Mode == [op \in {"MOVE", "LOADK", "LOADBOOL", "LOADNIL", "GETUPVAL", "GETGLOBAL", "GETTABLE", "SETGLOBAL",
                 "SETUPVAL", "SETTABLE", "NEWTABLE", "SELF", "ADD", "SUB", "MUL", "MOD", "UNM", "NOT", "LEN",
                 "CONCAT", "JMP", "EQ", "LT", "LE", "TEST", "TESTSET", "CALL", "TAILCALL", "RETURN", "FORLOOP",
                 "FORPREP", "TFORLOOP", "SETLIST", "CLOSE", "CLOSURE", "VARARG"} |->
  CASE op \in {"MOVE", "LOADNIL", "UNM", "NOT", "LEN"} -> <<"R", "N">>
    [] op \in {"GETTABLE", "SELF"} -> <<"R", "K">>
    [] op \in {"SETTABLE", "ADD", "SUB", "MUL", "MOD", "EQ", "LT", "LE"} -> <<"K", "K">>
    [] op = "CONCAT" -> <<"R", "R">>
    [] op \in {"TEST", "TESTSET"} -> <<"R", "U">>
    [] op = "TFORLOOP" -> <<"N", "U">>
    [] op = "CLOSE" -> <<"N", "N">>
    [] op \in {"GETUPVAL", "SETUPVAL", "VARARG", "RETURN"} -> <<"U", "N">>
    [] OTHER -> <<"U", "U">>]

OpenOp(i) == i.op \in {"CALL", "TAILCALL", "RETURN", "SETLIST"} /\ i.b = 0      \* luaG_checkopenop

\* An instruction after which the stack holds as many values as there are: the
\* next must take them all.
LeavesOpen(i) == (i.op \in {"CALL", "TAILCALL"} /\ i.c = 0) \/ (i.op = "VARARG" /\ i.b = 0)

CheckCode(p) ==
  LET c == p.code
      reg(r) == r < p.maxstack
      arg(r, mode) == CASE mode = "R" -> reg(r)
                        [] mode = "K" -> IF IsK(r) THEN r - BitRK < Len(p.k) ELSE reg(r)
                        [] mode = "N" -> r = 0
                        [] OTHER -> TRUE
      data == {pc \in DOMAIN c : c[pc].op = "COUNT"}      \* the word after a long SETLIST
      dest(pc) == c[pc].b \in DOMAIN c \ data
      Good(pc) ==
        LET i == c[pc]
        IN /\ reg(i.a)
           /\ arg(i.b, Mode[i.op][1]) /\ arg(i.c, Mode[i.op][2])
           /\ i.op \in Tests => pc + 2 \in DOMAIN c /\ c[pc + 1].op = "JMP"
           /\ LeavesOpen(i) => OpenOp(c[pc + 1])
           /\ CASE i.op \in {"LOADK"} -> i.b < Len(p.k)
                [] i.op \in {"GETGLOBAL", "SETGLOBAL"} -> i.b < Len(p.k) /\ p.k[i.b + 1][1] = "str"
                [] i.op = "LOADBOOL" -> i.c = 0 \/ pc + 2 \in DOMAIN c
                [] i.op \in {"GETUPVAL", "SETUPVAL"} -> i.b < p.nups
                [] i.op = "SELF" -> reg(i.a + 1)
                [] i.op = "CONCAT" -> i.b < i.c
                [] i.op = "TFORLOOP" -> i.c >= 1 /\ reg(i.a + 2 + i.c)
                [] i.op \in {"FORLOOP", "FORPREP"} -> reg(i.a + 3) /\ dest(pc)
                [] i.op = "JMP" -> dest(pc)
                [] i.op \in {"CALL", "TAILCALL"} ->
                     (i.b # 0 => reg(i.a + i.b - 1)) /\ (i.c > 1 => reg(i.a + i.c - 2))
                [] i.op = "RETURN" -> i.b > 1 => reg(i.a + i.b - 2)
                [] i.op = "SETLIST" -> (i.b > 0 => reg(i.a + i.b)) /\ (i.c = 0 => pc + 1 \in DOMAIN c)
                [] i.op = "CLOSURE" ->
                     /\ i.b < Len(p.p) /\ pc + p.p[i.b + 1].nups \in DOMAIN c
                     /\ \A j \in 1 .. p.p[i.b + 1].nups : c[pc + j].op \in {"GETUPVAL", "MOVE"}
                [] i.op = "VARARG" ->
                     /\ p.vararg \in {"main", "hasarg"}
                     /\ i.b > 1 => reg(i.a + i.b - 2)
                [] OTHER -> TRUE
  IN c[Len(c)].op = "RETURN" /\ \A pc \in DOMAIN c : pc \notin data => Good(pc)

Fun(i) == <<"fun", i>>
Tab(i) == <<"tab", i>>
Builtin(name) == <<"c", name>>
Unset == <<"unset">>          \* a register nothing has been put in
False(v) == v = Nil \/ v = Bool(FALSE)

(***************************************************************************)
(* The current function.                                                   *)
(***************************************************************************)
RunOf(x) == x.ci[Len(x.ci)]
ProtoAt(path) == FoldLeft(LAMBDA p, i : p.p[i], program.code, path)
ProtoOf(x) == ProtoAt(x.cls[x.stack[RunOf(x).func][2]].path)

Ci == RunOf(m)
P == ProtoOf(m)
Cl == m.cls[m.stack[Ci.func][2]]
I == P.code[Ci.pc]
Running == m.status = "run" /\ ~Ci.looping

Reg(r) == m.stack[Ci.base + r]
RKValue(r) == IF IsK(r) THEN P.k[r - BitRK + 1] ELSE Reg(r)

Goto(x, pc) == [x EXCEPT !.ci[Len(x.ci)].pc = pc]
Advance(x) == Goto(x, RunOf(x).pc + 1)
Set(r, v) == [m EXCEPT !.stack[Ci.base + r] = v]
Failed(x) == [x EXCEPT !.status = "error"]

Slice(s, i, j) == [k \in 1 .. Max({0, j - i}) |-> s[i + k - 1]]
Put(s, at, vs) == [i \in DOMAIN s |-> IF i - at + 1 \in DOMAIN vs THEN vs[i - at + 1] ELSE s[i]]
Adjusted(vs, n) == IF n = -1 THEN vs ELSE [k \in 1 .. n |-> IF k \in DOMAIN vs THEN vs[k] ELSE Nil]

(***************************************************************************)
(* Upvalues.                                                               *)
(***************************************************************************)
OpenAt(x, at) == {i \in DOMAIN x.ups : x.ups[i].at = at}
UpvalValue(x, i) == IF x.ups[i].at >= 0 THEN x.stack[x.ups[i].at] ELSE x.ups[i].v

CloseNone(x, level) == x                \* mutant: upvalues stay open
CloseUpvals(x, level) ==                \* luaF_close
  [x EXCEPT !.ups = [i \in DOMAIN x.ups |->
     IF x.ups[i].at >= level THEN [at |-> -1, v |-> x.stack[x.ups[i].at]] ELSE x.ups[i]]]

NewUpval(x, at) == [x EXCEPT !.ups = Append(@, [at |-> at, v |-> Nil])]
FindUpval(x, at) == IF OpenAt(x, at) # {} THEN x ELSE NewUpval(x, at)     \* luaF_findupval
UpvalAt(x, at) == CHOOSE i \in OpenAt(x, at) : TRUE

(***************************************************************************)
(* Calls.                                                                  *)
(***************************************************************************)
PosCall(x, func, vs, wanted) ==
  LET rs == Adjusted(vs, wanted)
  IN [x EXCEPT !.stack = Put(@, func, rs), !.top = func + Len(rs)]

\* adjust_varargs: the fixed parameters go above the arguments, then the
\* table arg when the function does not use `...'.
ArgTable(vs) ==
  [k \in {Num(i) : i \in DOMAIN vs} \cup {Str("n")} |-> IF k = Str("n") THEN Num(Len(vs)) ELSE vs[k[2]]]

VarargFrame(x, func, p, args) ==
  LET arg == p.vararg = "needsarg"
  IN [x |-> [x EXCEPT !.stack = Put(Put(@, func + 1, args), func + 1, [i \in 1 .. p.nparams |-> Nil]),
                      !.tabs = IF arg THEN Append(@, ArgTable(SubSeq(args, p.nparams + 1, Len(args)))) ELSE @],
      base |-> func + 1 + Len(args),
      put |-> SubSeq(args, 1, p.nparams) \o IF arg THEN <<Tab(Len(x.tabs) + 1)>> ELSE <<>>]
AdjustVarargs(x, func, p) ==
  VarargFrame(x, func, p, Adjusted(Slice(x.stack, func + 1, x.top), Max({x.top - func - 1, p.nparams})))
PlainFrame(x, func, p) ==
  [x |-> x, base |-> func + 1, put |-> Slice(x.stack, func + 1, Min({x.top, func + 1 + p.nparams}))]

\* luaD_precall
PushFrame(a, func, p, wanted) ==
  LET top == a.base + p.maxstack
  IN [a.x EXCEPT !.stack = Put(@, a.base, Adjusted(a.put, p.maxstack)), !.top = top,
                 !.ci = Append(@, [func |-> func, base |-> a.base, top |-> top, pc |-> 1,
                                   wanted |-> wanted, looping |-> FALSE])]
CallLua(x, func, p, wanted) ==
  PushFrame(IF p.vararg # "no" THEN AdjustVarargs(x, func, p) ELSE PlainFrame(x, func, p), func, p, wanted)
CallC(x, func, args, wanted) == PosCall([x EXCEPT !.out = Append(@, args)], func, args, wanted)
PreCall(x, func, wanted) ==
  LET f == x.stack[func]
  IN CASE f[1] = "fun" -> CallLua(x, func, ProtoAt(x.cls[f[2]].path), wanted)
       [] f[1] = "c" -> CallC(x, func, Slice(x.stack, func + 1, x.top), wanted)
       [] OTHER -> Failed(x)

IsLua(func) == m.stack[func][1] = "fun"
TopSet(x) == IF x.ci = <<>> THEN x ELSE [x EXCEPT !.top = RunOf(x).top]

(***************************************************************************)
(* The instructions.                                                       *)
(***************************************************************************)
Load ==              \* OP_MOVE, OP_LOADK, OP_LOADBOOL, OP_LOADNIL, OP_GETUPVAL
  /\ Running /\ I.op \in {"MOVE", "LOADK", "LOADBOOL", "LOADNIL", "GETUPVAL"}
  /\ m' = CASE I.op = "MOVE" -> Advance(Set(I.a, Reg(I.b)))
            [] I.op = "LOADK" -> Advance(Set(I.a, P.k[I.b + 1]))
            [] I.op = "LOADBOOL" -> Goto(Set(I.a, Bool(I.b = 1)), Ci.pc + 1 + I.c)
            [] I.op = "LOADNIL" ->
                 Advance([m EXCEPT !.stack = Put(@, Ci.base + I.a, [i \in 1 .. I.b - I.a + 1 |-> Nil])])
            [] I.op = "GETUPVAL" -> Advance(Set(I.a, UpvalValue(m, Cl.ups[I.b + 1])))
  /\ UNCHANGED program

TableIndex(t, k) == LET c == m.tabs[t[2]] IN IF k \in DOMAIN c THEN c[k] ELSE Nil
Without(c, k) == [j \in DOMAIN c \ {k} |-> c[j]]
Stored(c, k, v) == IF v = Nil THEN Without(c, k) ELSE (k :> v) @@ c
GetTable(t, k, r) == IF t[1] = "tab" THEN Advance(Set(r, TableIndex(t, k))) ELSE Failed(m)
SetTable(t, k, v) ==
  IF t[1] = "tab" /\ k # Nil THEN Advance([m EXCEPT !.tabs[t[2]] = Stored(@, k, v)]) ELSE Failed(m)

\* OP_SETLIST: the values above ra; its count may be in the next word.
SetListValues ==
  LET open == I.b = 0
      n == IF open THEN m.top - (Ci.base + I.a) - 1 ELSE I.b
      c == IF I.c = 0 THEN P.code[Ci.pc + 1].b ELSE I.c
      start == (c - 1) * FieldsPerFlush
      new == [k \in {Num(start + i) : i \in 1 .. n} |-> Reg(I.a + k[2] - start)]
      t == Reg(I.a)[2]
      pairs == {k \in DOMAIN new : new[k] # Nil}
      x == [m EXCEPT !.tabs[t] = [k \in (DOMAIN @ \ DOMAIN new) \cup pairs |->
                                     IF k \in pairs THEN new[k] ELSE m.tabs[t][k]]]
  IN Goto(IF open THEN TopSet(x) ELSE x, Ci.pc + IF I.c = 0 THEN 2 ELSE 1)

Tables ==            \* OP_GETGLOBAL ... OP_NEWTABLE, OP_SELF, OP_SETLIST
  /\ Running
  /\ I.op \in {"GETGLOBAL", "SETGLOBAL", "GETTABLE", "SETTABLE", "NEWTABLE", "SELF", "SETLIST"}
  /\ m' = CASE I.op = "GETGLOBAL" -> GetTable(Tab(1), P.k[I.b + 1], I.a)
            [] I.op = "SETGLOBAL" -> SetTable(Tab(1), P.k[I.b + 1], Reg(I.a))
            [] I.op = "GETTABLE" -> GetTable(Reg(I.b), RKValue(I.c), I.a)
            [] I.op = "SETTABLE" -> SetTable(Reg(I.a), RKValue(I.b), RKValue(I.c))
            [] I.op = "NEWTABLE" -> Advance([Set(I.a, Tab(Len(m.tabs) + 1)) EXCEPT !.tabs = Append(@, <<>>)])
            [] I.op = "SELF" -> LET t == Reg(I.b) key == RKValue(I.c)
                                IN IF t[1] = "tab"
                                   THEN Advance([Set(I.a + 1, t) EXCEPT !.stack[Ci.base + I.a] = TableIndex(t, key)])
                                   ELSE Failed(m)
            [] I.op = "SETLIST" -> SetListValues
  /\ UNCHANGED program

Upvals ==            \* OP_SETUPVAL, OP_CLOSE
  /\ Running /\ I.op \in {"SETUPVAL", "CLOSE"}
  /\ LET u == Cl.ups[I.b + 1]
     IN m' = Advance(CASE I.op = "CLOSE" -> CloseUpvals(m, Ci.base + I.a)
                       [] I.op = "SETUPVAL" /\ m.ups[u].at >= 0 -> [m EXCEPT !.stack[m.ups[u].at] = Reg(I.a)]
                       [] I.op = "SETUPVAL" /\ m.ups[u].at < 0 -> [m EXCEPT !.ups[u].v = Reg(I.a)])
  /\ UNCHANGED program

Closure ==           \* OP_CLOSURE and the moves after it, one for each upvalue
  /\ Running /\ I.op = "CLOSURE"
  /\ LET n == P.p[I.b + 1].nups
         refs == SubSeq(P.code, Ci.pc + 1, Ci.pc + n)
         x == FoldLeft(LAMBDA y, r : IF r.op = "MOVE" THEN FindUpval(y, Ci.base + r.b) ELSE y, m, refs)
         ups == [j \in 1 .. n |-> IF refs[j].op = "MOVE" THEN UpvalAt(x, Ci.base + refs[j].b)
                                  ELSE Cl.ups[refs[j].b + 1]]
     IN m' = Goto([x EXCEPT !.cls = Append(@, [path |-> Append(Cl.path, I.b + 1), ups |-> ups]),
                            !.stack[Ci.base + I.a] = Fun(Len(x.cls) + 1)], Ci.pc + n + 1)
  /\ UNCHANGED program

ArithOf(op, b, c) ==
  LET x == Ref!ToNumber(b)
      y == Ref!ToNumber(c)
  IN IF x = Nil \/ y = Nil \/ (op = "MOD" /\ y = Num(0)) THEN Failed(m)
     ELSE Advance(Set(I.a, Num(Calc(op, x[2], y[2]))))

Concat ==
  LET vs == Slice(m.stack, Ci.base + I.b, Ci.base + I.c + 1)
  IN IF \E i \in DOMAIN vs : vs[i][1] \notin {"str", "num"} THEN Failed(m)
     ELSE Advance(Set(I.a, Str(FoldLeft(LAMBDA s, v : s \o Ref!ToText(v), "", vs))))

Arithmetic ==        \* OP_ADD ... OP_UNM, OP_NOT, OP_LEN, OP_CONCAT
  /\ Running /\ I.op \in {"ADD", "SUB", "MUL", "MOD", "UNM", "NOT", "LEN", "CONCAT"}
  /\ m' = CASE I.op = "UNM" -> ArithOf("UNM", Reg(I.b), Reg(I.b))
            [] I.op = "NOT" -> Advance(Set(I.a, Bool(False(Reg(I.b)))))
            [] I.op = "LEN" -> LET n == Ref!Length(m.tabs, Reg(I.b))
                               IN IF n = Nil THEN Failed(m) ELSE Advance(Set(I.a, n))
            [] I.op = "CONCAT" -> Concat
            [] OTHER -> ArithOf(I.op, RKValue(I.b), RKValue(I.c))
  /\ UNCHANGED program

\* A test that comes out as asked takes the jump after it, or skips it.
Branch(x, taken) == Goto(x, IF taken THEN P.code[Ci.pc + 1].b ELSE Ci.pc + 2)
AsInt(b) == IF b THEN 1 ELSE 0
Test ==              \* OP_JMP, OP_EQ, OP_LT, OP_LE, OP_TEST, OP_TESTSET
  /\ Running /\ I.op \in {"JMP", "EQ", "LT", "LE", "TEST", "TESTSET"}
  /\ LET b == RKValue(I.b)
         c == RKValue(I.c)
         ordered == b[1] = "num" /\ c[1] = "num"
     IN m' = CASE I.op = "JMP" -> Goto(m, I.b)
               [] I.op = "EQ" -> Branch(m, AsInt(b = c) = I.a)
               [] I.op \in {"LT", "LE"} /\ ~ordered -> Failed(m)
               [] I.op = "LT" /\ ordered -> Branch(m, AsInt(b[2] < c[2]) = I.a)
               [] I.op = "LE" /\ ordered -> Branch(m, AsInt(b[2] <= c[2]) = I.a)
               [] I.op = "TEST" -> Branch(m, AsInt(False(Reg(I.a))) # I.c)
               [] I.op = "TESTSET" -> IF AsInt(False(Reg(I.b))) # I.c THEN Branch(Set(I.a, Reg(I.b)), TRUE)
                                      ELSE Branch(m, FALSE)
  /\ UNCHANGED program

ArgsSet == IF I.b = 0 THEN Advance(m) ELSE [Advance(m) EXCEPT !.top = Ci.base + I.a + I.b]

AfterC(x, fixed) == IF fixed /\ x.status = "run" THEN TopSet(x) ELSE x
Call ==              \* OP_CALL
  /\ Running /\ I.op = "CALL"
  /\ LET func == Ci.base + I.a
     IN m' = AfterC(PreCall(ArgsSet, func, I.c - 1), ~IsLua(func) /\ I.c # 0)
  /\ UNCHANGED program

\* The frame just made takes the place of this one.
Lower(x, new, vs) ==
  [x EXCEPT !.stack = Put(@, Ci.func, vs), !.top = Ci.func + Len(vs),
            !.ci = Append(SubSeq(@, 1, Len(@) - 2),
                          [new EXCEPT !.func = Ci.func, !.base = Ci.func + (new.base - new.func),
                                      !.top = Ci.func + Len(vs), !.wanted = Ci.wanted])]
Replace(x) == Lower(x, RunOf(x), Slice(x.stack, RunOf(x).func, x.top))
TailCall ==          \* OP_TAILCALL
  /\ Running /\ I.op = "TAILCALL"
  /\ LET func == Ci.base + I.a
     IN m' = IF ~IsLua(func) THEN PreCall(ArgsSet, func, -1)
             ELSE Replace(CloseUpvals(PreCall(ArgsSet, func, -1), Ci.base))
  /\ UNCHANGED program

Return ==            \* OP_RETURN
  /\ Running /\ I.op = "RETURN"
  /\ LET top == IF I.b = 0 THEN m.top ELSE Ci.base + I.a + I.b - 1
         x == CloseUpvals(m, Ci.base)
         vs == Slice(x.stack, Ci.base + I.a, top)
         y == PosCall([x EXCEPT !.ci = Front(@)], Ci.func, vs, Ci.wanted)
     IN m' = IF y.ci = <<>> THEN [y EXCEPT !.status = "done", !.res = vs]
             ELSE IF Ci.wanted # -1 THEN TopSet(y) ELSE y
  /\ UNCHANGED program

Vararg ==            \* OP_VARARG
  /\ Running /\ I.op = "VARARG"
  /\ LET n == Ci.base - Ci.func - 1 - P.nparams
         vs == Adjusted(Slice(m.stack, Ci.base - n, Ci.base), I.b - 1)
         x == [m EXCEPT !.stack = Put(@, Ci.base + I.a, vs)]
     IN m' = Advance(IF I.b = 0 THEN [x EXCEPT !.top = Ci.base + I.a + n] ELSE x)
  /\ UNCHANGED program

For ==               \* OP_FORPREP, OP_FORLOOP
  /\ Running /\ I.op \in {"FORPREP", "FORLOOP"}
  /\ LET n == [i \in 0 .. 2 |-> Ref!ToNumber(Reg(I.a + i))]
         idx == n[0][2] + n[2][2]
         again == IF 0 < n[2][2] THEN idx <= n[1][2] ELSE n[1][2] <= idx
         bad == \E i \in 0 .. 2 : n[i] = Nil
     IN m' = CASE I.op = "FORPREP" /\ bad -> Failed(m)
               [] I.op = "FORPREP" /\ ~bad ->
                    Goto([m EXCEPT !.stack = Put(@, Ci.base + I.a, <<Num(n[0][2] - n[2][2]), n[1], n[2]>>)], I.b)
               [] I.op = "FORLOOP" /\ again ->
                    Goto([Set(I.a, Num(idx)) EXCEPT !.stack[Ci.base + I.a + 3] = Num(idx)], I.b)
               [] I.op = "FORLOOP" /\ ~again -> Advance(m)
  /\ UNCHANGED program

TForCall ==          \* OP_TFORLOOP calls the iterator
  /\ Running /\ I.op = "TFORLOOP"
  /\ LET cb == Ci.base + I.a + 3
         x == [Advance(m) EXCEPT !.stack = Put(@, cb, <<Reg(I.a), Reg(I.a + 1), Reg(I.a + 2)>>), !.top = cb + 3]
     IN m' = PreCall([x EXCEPT !.ci[Len(x.ci)].looping = TRUE], cb, I.c)
  /\ UNCHANGED program

TForTest ==          \* and goes on with its first result
  /\ m.status = "run" /\ Ci.looping
  /\ LET i == P.code[Ci.pc - 1]
         v == Reg(i.a + 3)
         x == TopSet([m EXCEPT !.ci[Len(m.ci)].looping = FALSE])
     IN m' = IF v = Nil THEN Advance(x) ELSE Goto([x EXCEPT !.stack[Ci.base + i.a + 2] = v], I.b)
  /\ UNCHANGED program

Globals == (Str("emit") :> Builtin("emit"))

Init ==
  /\ program \in Programs
  /\ m = [stack |-> [i \in 0 .. StackSize |-> IF i = 0 THEN Fun(1) ELSE Unset], top |-> 1, ci |-> <<>>,
          ups |-> <<>>, cls |-> <<[path |-> <<>>, ups |-> <<>>]>>, tabs |-> <<Globals>>,
          out |-> <<>>, status |-> "text", res |-> <<>>]

Parser ==            \* luaD_protectedparser: the text becomes code
  /\ m.status = "text"
  /\ program' = Compiled(program)
  /\ m' = [m EXCEPT !.status = "loaded"]

Start ==             \* the main function is called
  /\ m.status = "loaded"
  /\ m' = PreCall([m EXCEPT !.status = "run"], 0, -1)
  /\ UNCHANGED program

Next == \/ Parser \/ Start \/ Load \/ Tables \/ Upvals \/ Closure \/ Arithmetic \/ Test
        \/ Call \/ TailCall \/ Return \/ Vararg \/ For \/ TForCall \/ TForTest

Spec == Init /\ [][Next]_vars /\ WF_vars(Next)

(***************************************************************************)
(* Properties.                                                             *)
(***************************************************************************)
\* What a program shows and returns is what its text means, whatever registers,
\* jumps and constants the compiler chose.
Plain(v) == IF v[1] \in {"tab", "fun"} THEN <<v[1]>> ELSE v
PlainAll(vs) == [i \in DOMAIN vs |-> Plain(vs[i])]
RunsAsWritten ==
  m.status \in {"done", "error"} =>
    LET r == program.meaning
    IN /\ (m.status = "error") = r.err
       /\ [i \in DOMAIN m.out |-> PlainAll(m.out[i])] = [i \in DOMAIN r.out |-> PlainAll(r.out[i])]
       /\ ~r.err => PlainAll(m.res) = PlainAll(r.res)

\* The assertions of the compiler hold (registers freed in order, lists of
\* jumps closed), and its code passes the checker of ldebug.c.
RECURSIVE Sound(_)
Sound(p) == p.ok /\ CheckCode(p) /\ \A i \in DOMAIN p.p : Sound(p.p[i])
CodeIsSound == m.status = "run" /\ Len(m.ci) = 1 /\ Ci.pc = 1 => Sound(program.code)

\* The top of the stack is the frame's, or the next instruction takes the open
\* results below it; an open upvalue is a register of an active function; and
\* the frames lie above each other.
FrameInOrder ==
  m.status = "run" =>
    /\ m.top = Ci.top \/ Ci.looping \/ OpenOp(I)
    /\ \A i \in DOMAIN m.ups : m.ups[i].at < Ci.top
    /\ \A i \in 1 .. Len(m.ci) - 1 : m.ci[i].base <= m.ci[i + 1].func /\ m.ci[i + 1].func < m.ci[i].top
=============================================================================
