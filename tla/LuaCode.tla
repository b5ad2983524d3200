-------------------------------- MODULE LuaCode --------------------------------
(***************************************************************************)
(* The code generator of Lua 5.1 (lcode.c): what a function being compiled *)
(* gains when an expression is put in a register, tested or stored.        *)
(*                                                                         *)
(* fs is the state of the function: its code, its constants, the names of  *)
(* its active locals (local i lives in register i - 1), the first free     *)
(* register, the jumps pending to the next instruction, its blocks, and    *)
(* the function around it.  An expression is [k, info, aux, t, f] with its *)
(* kind and the jumps that leave it when true and when false: a set, where *)
(* lcode.c chains the jumps through their own offsets.  A jump has its     *)
(* destination in b, counted from 1 as all instructions are.               *)
(***************************************************************************)
EXTENDS Integers, Sequences, FiniteSets, SequencesExt, FiniteSetsExt

CONSTANTS MaxIndexRK,       \* MAXINDEXRK: last constant an operand can name
          FieldsPerFlush,   \* LFIELDS_PER_FLUSH: list items stored at once
          MaxArgC           \* MAXARG_C

BitRK == 256
NoReg == 255
IsK(r) == r >= BitRK

Nil == <<"nil">>
Bool(b) == <<"bool", b>>
Num(n) == <<"num", n>>
Str(s) == <<"str", s>>

Instr(op, a, b, c) == [op |-> op, a |-> a, b |-> b, c |-> c]
Tests == {"EQ", "LT", "LE", "TEST", "TESTSET", "TFORLOOP"}      \* testTMode

Exp(k, info) == [k |-> k, info |-> info, aux |-> 0, t |-> {}, f |-> {}]
HasJumps(e) == e.t # {} \/ e.f # {}
IsNumeral(e) == e.k = "KNUM" /\ ~HasJumps(e)
HasMultRet(e) == e.k \in {"CALL", "VARARG"}

R(fs, e) == [fs |-> fs, e |-> e]       \* what the operators below take and give, as r
NAct(fs) == Len(fs.act)
Here(fs) == Len(fs.code) + 1
Ensure(fs, p) == [fs EXCEPT !.ok = @ /\ p]

(***************************************************************************)
(* Jumps and instructions.                                                 *)
(***************************************************************************)
JumpControl(c, pc) == IF pc > 1 /\ c[pc - 1].op \in Tests THEN pc - 1 ELSE pc

TestReg(x, reg) ==                     \* the test x, which puts its value in reg
  IF x.op # "TESTSET" THEN x
  ELSE IF reg # NoReg /\ reg # x.b THEN [x EXCEPT !.a = reg] ELSE Instr("TEST", x.b, 0, x.c)
ValueJump(c, j) == j > 1 /\ c[j - 1].op = "TESTSET"       \* the jump j leaves a value in a register

Each(c, New(_)) == SubSeq([i \in DOMAIN c |-> New(i)], 1, Len(c))
RemoveValues(c, list) == Each(c, LAMBDA i : IF i + 1 \in list THEN TestReg(c[i], NoReg) ELSE c[i])
PatchListAux(c, list, vtarget, reg, dtarget) ==
  Each(c, LAMBDA i :
     IF i \in list THEN [c[i] EXCEPT !.b = IF ValueJump(c, i) THEN vtarget ELSE dtarget]
     ELSE IF i + 1 \in list THEN TestReg(c[i], reg) ELSE c[i])

\* luaK_code: the pending jumps come to the new instruction.
Code(fs, i) ==
  [fs EXCEPT !.code = Append(PatchListAux(@, fs.jpc, Here(fs), NoReg, Here(fs)), i), !.jpc = {}]

Label(fs) == [fs EXCEPT !.lasttarget = Here(fs)]                      \* luaK_getlabel
PatchToHere(fs, list) == [Label(fs) EXCEPT !.jpc = @ \cup list]
PatchList(fs, list, target) ==
  IF target = Here(fs) THEN PatchToHere(fs, list)
  ELSE [fs EXCEPT !.code = PatchListAux(@, list, target, NoReg, target)]

\* The new jump takes along those pending to its place.
Jump(fs) ==
  [fs |-> [fs EXCEPT !.code = Append(@, Instr("JMP", 0, 0, 0)), !.jpc = {}], list |-> {Here(fs)} \cup fs.jpc]
CondJump(fs, op, a, b, c) == Jump(Code(fs, Instr(op, a, b, c)))

LoadNil(fs, from, n) ==                                               \* luaK_nil
  LET last == Last(fs.code)
      free == Here(fs) > fs.lasttarget
      joins == fs.code # <<>> /\ last.op = "LOADNIL" /\ last.a <= from /\ from <= last.b + 1
  IN IF free /\ fs.code = <<>> /\ from >= NAct(fs) THEN fs
     ELSE IF free /\ joins THEN [fs EXCEPT !.code[Len(fs.code)].b = Max({@, from + n - 1})]
     ELSE Code(fs, Instr("LOADNIL", from, from + n - 1, 0))

(***************************************************************************)
(* Registers and constants.                                                *)
(***************************************************************************)
CheckStack(fs, n) == [fs EXCEPT !.maxstack = Max({@, fs.freereg + n})]
Reserve(fs, n) == [CheckStack(fs, n) EXCEPT !.freereg = @ + n]
FreeReg(fs, r) ==
  IF IsK(r) \/ r < NAct(fs) THEN fs ELSE [Ensure(fs, r = fs.freereg - 1) EXCEPT !.freereg = @ - 1]
FreeExp(fs, e) == IF e.k = "NONRELOC" THEN FreeReg(fs, e.info) ELSE fs

AddK(fs, v) ==
  LET known == {i \in DOMAIN fs.k : fs.k[i] = v}
  IN IF known # {} THEN [fs |-> fs, i |-> Max(known) - 1]
     ELSE [fs |-> [fs EXCEPT !.k = Append(@, v)], i |-> Len(fs.k)]

ConstantAt(a, e) == R(a.fs, [e EXCEPT !.k = "K", !.info = a.i])
AsConstant(r, v) == ConstantAt(AddK(r.fs, v), r.e)

SetReturns(r, n) ==
  CASE r.e.k = "CALL" -> [r.fs EXCEPT !.code[r.e.info].c = n + 1]
    [] r.e.k = "VARARG" -> Reserve([r.fs EXCEPT !.code[r.e.info] = [@ EXCEPT !.b = n + 1, !.a = r.fs.freereg]], 1)
    [] OTHER -> r.fs

SetOneRet(r) ==
  CASE r.e.k = "CALL" -> [r EXCEPT !.e.k = "NONRELOC", !.e.info = r.fs.code[r.e.info].a]
    [] r.e.k = "VARARG" -> [r EXCEPT !.fs.code[r.e.info].b = 2, !.e.k = "RELOCABLE"]
    [] OTHER -> r

(***************************************************************************)
(* Expressions to registers.                                               *)
(***************************************************************************)
\* The value of e is what the last instruction gives.
Relocable(fs, e) == R(fs, [e EXCEPT !.k = "RELOCABLE", !.info = Len(fs.code)])

Fetch(e) == CASE e.k = "UPVAL" -> Instr("GETUPVAL", 0, e.info, 0)
              [] e.k = "GLOBAL" -> Instr("GETGLOBAL", 0, e.info, 0)
              [] e.k = "INDEXED" -> Instr("GETTABLE", 0, e.info, e.aux)
FreeIndex(r) == IF r.e.k = "INDEXED" THEN FreeReg(FreeReg(r.fs, r.e.aux), r.e.info) ELSE r.fs
DischargeVars(r) ==
  CASE r.e.k = "LOCAL" -> [r EXCEPT !.e.k = "NONRELOC"]
    [] r.e.k \in {"UPVAL", "GLOBAL", "INDEXED"} -> Relocable(Code(FreeIndex(r), Fetch(r.e)), r.e)
    [] OTHER -> SetOneRet(r)

LoadInstr(e, reg) == CASE e.k \in {"FALSE", "TRUE"} -> Instr("LOADBOOL", reg, IF e.k = "TRUE" THEN 1 ELSE 0, 0)
                       [] e.k = "K" -> Instr("LOADK", reg, e.info, 0)
                       [] e.k = "NONRELOC" -> Instr("MOVE", reg, e.info, 0)
LoadCode(r, reg) ==
  CASE r.e.k = "NIL" -> LoadNil(r.fs, reg, 1)
    [] r.e.k = "RELOCABLE" -> [r.fs EXCEPT !.code[r.e.info].a = reg]
    [] r.e.k \in {"VOID", "JMP"} \/ (r.e.k = "NONRELOC" /\ reg = r.e.info) -> r.fs
    [] OTHER -> Code(r.fs, LoadInstr(r.e, reg))
LoadReg(r, reg) ==
  R(LoadCode(r, reg), IF r.e.k \in {"VOID", "JMP"} THEN r.e ELSE [r.e EXCEPT !.k = "NONRELOC", !.info = reg])
NumeralToK(r) == IF r.e.k = "KNUM" THEN AsConstant(r, Num(r.e.info)) ELSE r
Discharge2Reg(r, reg) == LoadReg(NumeralToK(DischargeVars(r)), reg)
Discharge2AnyReg(r) ==
  IF r.e.k = "NONRELOC" THEN r ELSE Discharge2Reg([r EXCEPT !.fs = Reserve(@, 1)], r.fs.freereg)

NeedNone(c, list) == FALSE           \* mutant: the tests that give no value are forgotten
NeedValue(c, list) == \E j \in list : ~ValueJump(c, j)

\* The jumps of e end with its value in reg: two loads give the values of
\* the tests that have none.
ItsOwnJump(r) == IF r.e.k = "JMP" THEN [r EXCEPT !.e.t = @ \cup {r.e.info}] ELSE r
LoadBools(fs, reg) == Code(Label(Code(Label(fs), Instr("LOADBOOL", reg, 0, 1))), Instr("LOADBOOL", reg, 1, 0))
GiveValues(j, reg) == PatchToHere(LoadBools(j.fs, reg), j.list)
WithValues(r, reg) ==
  IF NeedValue(r.fs.code, r.e.t \cup r.e.f)
  THEN GiveValues(IF r.e.k = "JMP" THEN [fs |-> r.fs, list |-> {}] ELSE Jump(r.fs), reg)
  ELSE r.fs
Join(fs, e, reg) ==
  [Label(fs) EXCEPT !.code = PatchListAux(PatchListAux(@, e.f, Here(fs), reg, Here(fs) - 2),
                                          e.t, Here(fs), reg, Here(fs) - 1)]
Settle(r, reg) ==
  R(IF HasJumps(r.e) THEN Join(WithValues(r, reg), r.e, reg) ELSE r.fs, Exp("NONRELOC", reg))
\* exp2reg; the operators that take d have its variables discharged already.
ToReg(d, reg) == Settle(ItsOwnJump(LoadReg(NumeralToK(d), reg)), reg)
Exp2Reg(r, reg) == ToReg(DischargeVars(r), reg)

NextReg(r) == FreeExp(r.fs, r.e).freereg
Place(r) == [r EXCEPT !.fs = Reserve(FreeExp(@, r.e), 1)]
ToNextReg(d) == ToReg(Place(d), NextReg(d))
Exp2NextReg(r) == ToNextReg(DischargeVars(r))

ToAnyReg(d) ==
  LET stays == d.e.k = "NONRELOC" /\ d.e.info >= NAct(d.fs)
  IN IF d.e.k = "NONRELOC" /\ ~HasJumps(d.e) THEN d
     ELSE ToReg(IF stays THEN d ELSE Place(d), IF stays THEN d.e.info ELSE NextReg(d))
Exp2AnyReg(r) == ToAnyReg(DischargeVars(r))
Exp2Val(r) == IF HasJumps(r.e) THEN Exp2AnyReg(r) ELSE DischargeVars(r)

ConstantOf(e) == CASE e.k = "NIL" -> Nil [] e.k = "KNUM" -> Num(e.info) [] OTHER -> Bool(e.k = "TRUE")
ToRK(d) ==
  IF ~HasJumps(d.e) /\ d.e.k \in {"KNUM", "TRUE", "FALSE", "NIL"} /\ Len(d.fs.k) <= MaxIndexRK
  THEN AsConstant(d, ConstantOf(d.e))
  ELSE IF ~HasJumps(d.e) /\ d.e.k = "K" /\ d.e.info <= MaxIndexRK THEN d
  ELSE ToAnyReg(d)
Exp2RK(r) == ToRK(DischargeVars(r))
RK(e) == IF e.k = "K" THEN e.info + BitRK ELSE e.info

StoreInstr(var, e) == CASE var.k = "UPVAL" -> Instr("SETUPVAL", e.info, var.info, 0)
                        [] var.k = "GLOBAL" -> Instr("SETGLOBAL", e.info, var.info, 0)
                        [] var.k = "INDEXED" -> Instr("SETTABLE", var.info, var.aux, RK(e))
CodeStore(r, var) == FreeExp(Code(r.fs, StoreInstr(var, r.e)), r.e)
StoreVar(r, var) ==
  IF var.k = "LOCAL" THEN Exp2Reg([r EXCEPT !.fs = FreeExp(@, r.e)], var.info).fs
  ELSE CodeStore(IF var.k = "INDEXED" THEN Exp2RK(r) ELSE Exp2AnyReg(r), var)

CodeSelf(key, func, o) ==
  R(FreeExp(Code(key.fs, Instr("SELF", func, o, RK(key.e))), key.e), Exp("NONRELOC", func))
SelfOf(r, key) == CodeSelf(Exp2RK(R(Reserve(FreeExp(r.fs, r.e), 2), key)), NextReg(r), r.e.info)
Self(r, key) == SelfOf(Exp2AnyReg(r), key)

IndexedBy(key, t) == R(key.fs, [t EXCEPT !.k = "INDEXED", !.aux = RK(key.e)])
Indexed(key, t) == IndexedBy(Exp2RK(key), t)

(***************************************************************************)
(* Conditions.                                                             *)
(***************************************************************************)
InvertJump(r) ==
  LET i == JumpControl(r.fs.code, r.e.info)
  IN [Ensure(r.fs, r.fs.code[i].op \in Tests \ {"TEST", "TESTSET"}) EXCEPT !.code[i].a = 1 - @]

JumpOnValue(r, cond) == CondJump(FreeExp(r.fs, r.e), "TESTSET", NoReg, r.e.info, cond)
JumpOnCond(r, cond) ==
  LET i == r.fs.code[r.e.info]
  IN IF r.e.k = "RELOCABLE" /\ i.op = "NOT"
     THEN CondJump([r.fs EXCEPT !.code = Front(@)], "TEST", i.b, 0, 1 - cond)
     ELSE JumpOnValue(Discharge2AnyReg(r), cond)

NoJump(fs) == [fs |-> fs, list |-> {}]
JumpIfFalse(r) ==
  CASE r.e.k \in {"K", "KNUM", "TRUE"} -> NoJump(r.fs)
    [] r.e.k = "FALSE" -> Jump(r.fs)
    [] r.e.k = "JMP" -> [fs |-> InvertJump(r), list |-> {r.e.info}]
    [] OTHER -> JumpOnCond(r, 0)
JumpIfTrue(r) ==
  CASE r.e.k \in {"NIL", "FALSE"} -> NoJump(r.fs)
    [] r.e.k = "TRUE" -> Jump(r.fs)
    [] r.e.k = "JMP" -> [fs |-> r.fs, list |-> {r.e.info}]
    [] OTHER -> JumpOnCond(r, 1)
GoOnIfTrue(j, e) == R(PatchToHere(j.fs, e.t), [e EXCEPT !.f = @ \cup j.list, !.t = {}])
GoOnIfFalse(j, e) == R(PatchToHere(j.fs, e.f), [e EXCEPT !.t = @ \cup j.list, !.f = {}])
IfTrue(r) == GoOnIfTrue(JumpIfFalse(r), r.e)
IfFalse(r) == GoOnIfFalse(JumpIfTrue(r), r.e)
GoIfTrue(r) == IfTrue(DischargeVars(r))
GoIfFalse(r) == IfFalse(DischargeVars(r))

NotOf(r) == Relocable(Code(FreeExp(r.fs, r.e), Instr("NOT", 0, r.e.info, 0)), r.e)
Negated(r) ==
  CASE r.e.k \in {"NIL", "FALSE"} -> [r EXCEPT !.e.k = "TRUE"]
    [] r.e.k \in {"K", "KNUM", "TRUE"} -> [r EXCEPT !.e.k = "FALSE"]
    [] r.e.k = "JMP" -> [r EXCEPT !.fs = InvertJump(r)]
    [] OTHER -> NotOf(Discharge2AnyReg(r))
SwapJumps(r) ==
  R([r.fs EXCEPT !.code = RemoveValues(@, r.e.t \cup r.e.f)], [r.e EXCEPT !.t = r.e.f, !.f = r.e.t])
CodeNot(r) == SwapJumps(Negated(DischargeVars(r)))

(***************************************************************************)
(* Operators.                                                              *)
(***************************************************************************)
\* Arithmetic on integers: division and power are left out.
Mod(x, y) == IF y > 0 THEN x % y ELSE -((-x) % (-y))
Calc(op, x, y) ==
  CASE op = "ADD" -> x + y [] op = "SUB" -> x - y [] op = "MUL" -> x * y
    [] op = "MOD" -> Mod(x, y) [] op = "UNM" -> -x

ConstFolding(op, e1, e2) ==
  op \in {"ADD", "SUB", "MUL", "MOD", "UNM"} /\ IsNumeral(e1) /\ IsNumeral(e2) /\ ~(op = "MOD" /\ e2.info = 0)

\* r has the second operand, e1 is the first.
Unary(op) == op \in {"UNM", "LEN"}
FreeBoth(fs, a, b) == IF RK(a) > RK(b) THEN FreeExp(FreeExp(fs, a), b) ELSE FreeExp(FreeExp(fs, b), a)
ArithInstr(op, e1, e2) == Instr(op, 0, RK(e1), IF Unary(op) THEN 0 ELSE RK(e2))
ArithOn(x1, op, e2) == Relocable(Code(FreeBoth(x1.fs, x1.e, e2), ArithInstr(op, x1.e, e2)), x1.e)
ArithFirst(x2, op, e1) == ArithOn(Exp2RK(R(x2.fs, e1)), op, x2.e)
CodeArith(r, op, e1) ==
  IF ConstFolding(op, e1, r.e) THEN R(r.fs, [e1 EXCEPT !.info = Calc(op, e1.info, r.e.info)])
  ELSE ArithFirst(IF Unary(op) THEN r ELSE Exp2RK(r), op, e1)

Compared(j, e1) == R(j.fs, [e1 EXCEPT !.k = "JMP", !.info = Len(j.fs.code)])
CompOn(x2, op, cond, e1) ==
  LET swap == cond = 0 /\ op # "EQ"
  IN CondJump(FreeExp(FreeExp(x2.fs, x2.e), e1), op, IF swap THEN 1 ELSE cond,
              RK(IF swap THEN x2.e ELSE e1), RK(IF swap THEN e1 ELSE x2.e))
CompSecond(x1, op, cond, e2) == Compared(CompOn(Exp2RK(R(x1.fs, e2)), op, cond, x1.e), x1.e)
CodeComp(r, op, cond, e1) == CompSecond(Exp2RK(R(r.fs, e1)), op, cond, r.e)

SignOrLen(r, op) == CodeArith(R(r.fs, Exp("KNUM", 0)), IF op = "-" THEN "UNM" ELSE "LEN", r.e)
Prefix(r, op) ==
  IF op = "not" THEN CodeNot(r)
  ELSE SignOrLen(IF IsNumeral(r.e) /\ op = "-" THEN r ELSE Exp2AnyReg(r), op)

ArithOps == [o \in {"+", "-", "*", "%"} |->
               CASE o = "+" -> "ADD" [] o = "-" -> "SUB" [] o = "*" -> "MUL" [] o = "%" -> "MOD"]

Infix(r, op) ==
  CASE op = "and" -> GoIfTrue(r)
    [] op = "or" -> GoIfFalse(r)
    [] op = ".." -> Exp2NextReg(r)
    [] OTHER -> IF op \in DOMAIN ArithOps /\ IsNumeral(r.e) THEN r ELSE Exp2RK(r)

Both(r, e1) == R(Ensure(r.fs, e1.t = {}), [r.e EXCEPT !.f = @ \cup e1.f])
Either(r, e1) == R(Ensure(r.fs, e1.f = {}), [r.e EXCEPT !.t = @ \cup e1.t])
Joins(r) == r.e.k = "RELOCABLE" /\ r.fs.code[r.e.info].op = "CONCAT"
JoinConcat(r, e1) ==
  R([FreeExp(Ensure(r.fs, e1.info = r.fs.code[r.e.info].b - 1), e1) EXCEPT !.code[r.e.info].b = e1.info],
    [e1 EXCEPT !.k = "RELOCABLE", !.info = r.e.info])
CodeConcat(r, e1) == IF Joins(r) THEN JoinConcat(r, e1) ELSE ArithFirst(Exp2NextReg(r), "CONCAT", e1)

CompOps == [o \in {"==", "~=", "<", ">", "<=", ">="} |->
              CASE o \in {"==", "~="} -> "EQ" [] o \in {"<", ">"} -> "LT" [] o \in {"<=", ">="} -> "LE"]

Posfix(r, op, e1) ==
  CASE op = "and" -> Both(DischargeVars(r), e1)
    [] op = "or" -> Either(DischargeVars(r), e1)
    [] op = ".." -> CodeConcat(Exp2Val(r), e1)
    [] op \in DOMAIN ArithOps -> CodeArith(r, ArithOps[op], e1)
    [] op \in DOMAIN CompOps -> CodeComp(r, CompOps[op], IF op \in {"==", "<", "<="} THEN 1 ELSE 0, e1)

SetList(fs, base, nelems, tostore) ==
  LET c == (nelems - 1) \div FieldsPerFlush + 1
      b == IF tostore = -1 THEN 0 ELSE tostore
      g == IF c <= MaxArgC THEN Code(fs, Instr("SETLIST", base, b, c))
           ELSE Code(Code(fs, Instr("SETLIST", base, b, 0)), Instr("COUNT", 0, c, 0))
  IN [g EXCEPT !.freereg = base + 1]
=============================================================================
