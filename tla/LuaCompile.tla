------------------------------- MODULE LuaCompile -------------------------------
(***************************************************************************)
(* The one-pass compiler of Lua 5.1 (lparser.c): how each construct of the *)
(* grammar is compiled as it is recognized.  A construct is a record       *)
(* [x |-> name of the construct, its parts]; the recognition itself        *)
(* (tokens, priorities of operators) is left out.                          *)
(***************************************************************************)
EXTENDS LuaCode

\* Functions and blocks.  A function knows the one around it, if any: prev is
\* a sequence of at most one function.
OpenFunc(prev) ==
  [code |-> <<>>, k |-> <<>>, p |-> <<>>, ups |-> <<>>, act |-> <<>>, bl |-> <<>>, jpc |-> {}, lasttarget |-> 0,
   freereg |-> 0, maxstack |-> 2, nparams |-> 0, vararg |-> "no", ok |-> TRUE, prev |-> prev]

AdjustLocals(fs, names) == [fs EXCEPT !.act = @ \o names]

EnterBlock(fs, breakable) ==
  [Ensure(fs, fs.freereg = NAct(fs)) EXCEPT
     !.bl = Append(@, [breaks |-> {}, nact |-> NAct(fs), upval |-> FALSE, breakable |-> breakable])]

CloseBlock(fs, b) == IF b.upval THEN Code(fs, Instr("CLOSE", b.nact, 0, 0)) ELSE fs
AfterBlock(fs, b) == PatchToHere([Ensure(fs, ~(b.breakable /\ b.upval)) EXCEPT !.freereg = NAct(fs)], b.breaks)
LeaveBlock(fs) ==
  LET b == Last(fs.bl) IN AfterBlock(CloseBlock([fs EXCEPT !.bl = Front(@), !.act = SubSeq(@, 1, b.nact)], b), b)

\* markupval: the block that declares the local will close it.
MarkNone(fs, level) == fs              \* mutant
MarkUpval(fs, level) ==
  LET bs == {i \in DOMAIN fs.bl : fs.bl[i].nact <= level}
  IN IF bs = {} THEN fs ELSE [fs EXCEPT !.bl[Max(bs)].upval = TRUE]

RECURSIVE SingleVarAux(_, _, _)
UpvalOf(fs, r) ==               \* indexupvalue: r is what the variable is in the function around
  LET up == [k |-> r.e.k, info |-> r.e.info]
      known == {i \in DOMAIN fs.ups : fs.ups[i] = up}
      g == [fs EXCEPT !.prev = <<r.fs>>]
  IN IF r.e.k = "GLOBAL" THEN R(g, r.e)
     ELSE IF known # {} THEN R(g, Exp("UPVAL", Max(known) - 1))
     ELSE R([g EXCEPT !.ups = Append(@, up)], Exp("UPVAL", Len(fs.ups)))
SingleVarAux(fs, n, base) ==
  LET locals == {i \in DOMAIN fs.act : fs.act[i] = n}
  IN IF locals # {}
     THEN R(IF base THEN fs ELSE MarkUpval(fs, Max(locals) - 1), Exp("LOCAL", Max(locals) - 1))
     ELSE IF fs.prev = <<>> THEN R(fs, Exp("GLOBAL", NoReg))
     ELSE UpvalOf(fs, SingleVarAux(fs.prev[1], n, FALSE))

CodeString(fs, s) == AsConstant(R(fs, Exp("K", 0)), Str(s))
NameToK(r, n) == IF r.e.k = "GLOBAL" THEN [AsConstant(r, Str(n)) EXCEPT !.e.k = "GLOBAL"] ELSE r
SingleVar(fs, n) == NameToK(SingleVarAux(fs, n, TRUE), n)

NilLocals(fs, n) == LoadNil(Reserve(fs, n), fs.freereg, n)
AdjustAssign(r, nvars, nexps) ==
  LET extra == nvars - nexps
      more == IF extra > 0 THEN extra ELSE 0
      g == IF r.e.k = "VOID" THEN r.fs ELSE Exp2NextReg(r).fs
  IN IF HasMultRet(r.e) THEN Reserve(SetReturns(r, Max({0, extra + 1})), more)
     ELSE IF extra > 0 THEN NilLocals(g, extra) ELSE g

\* close_func: what the machine runs.  The new function refers to the
\* upvalues of this one as the code after OP_CLOSURE says.
ProtoOfCode(fs) ==
  [code |-> fs.code, k |-> fs.k, p |-> fs.p, nups |-> Len(fs.ups), nparams |-> fs.nparams,
   vararg |-> fs.vararg, maxstack |-> fs.maxstack, ok |-> fs.ok /\ fs.bl = <<>>]
Proto(fs) == ProtoOfCode(Code([fs EXCEPT !.act = <<>>], Instr("RETURN", 0, 1, 0)))

MoveUpval(u) == Instr(IF u.k = "LOCAL" THEN "MOVE" ELSE "GETUPVAL", 0, u.info, 0)
MoveUpvals(fs, ups) == R(FoldLeft(LAMBDA h, u : Code(h, MoveUpval(u)), fs, ups), Exp("RELOCABLE", Len(fs.code)))
PushClosure(func) ==
  LET fs == func.prev[1]
  IN MoveUpvals(Code([fs EXCEPT !.p = Append(@, Proto(func))], Instr("CLOSURE", 0, Len(fs.p), 0)), func.ups)

(***************************************************************************)
(* Expressions.                                                            *)
(***************************************************************************)
RECURSIVE Expr(_, _), ExpList(_, _), Items(_, _, _), Clauses(_, _), Variables(_, _), Chunk(_, _)

ParList(fs, x, self) ==
  LET names == (IF self THEN <<"self">> ELSE <<>>) \o x.params
      g == AdjustLocals(fs, names \o (IF x.dots THEN <<"arg">> ELSE <<>>))
  IN Reserve([g EXCEPT !.nparams = Len(names), !.vararg = IF x.dots THEN "needsarg" ELSE "no"], NAct(g))

Body(fs, x, self) == PushClosure(Chunk(ParList(OpenFunc(<<fs>>), x, self), x.body))

\* Each expression of a list but the last is put in the next register.
RestOfList(r, xs) == IF xs = <<>> \/ ~r.fs.ok THEN r ELSE ExpList(Exp2NextReg(r).fs, xs)
ExpList(fs, xs) == IF xs = <<>> THEN R(fs, Exp("NONE", 0)) ELSE RestOfList(Expr(fs, Head(xs)), Tail(xs))

\* Constructor: cc has the function, the items read, those not stored (pending)
\* and the last list item.
LastItem(cc) == R(cc.fs, cc.v)
Flush(cc, base) ==
  IF cc.pending = FieldsPerFlush THEN [cc EXCEPT !.fs = SetList(cc.fs, base, cc.na, cc.pending), !.pending = 0] ELSE cc
CloseListField(cc, base) ==
  IF cc.v.k = "VOID" THEN cc
  ELSE Flush([cc EXCEPT !.fs = Exp2NextReg(LastItem(cc)).fs, !.v = Exp("VOID", 0)], base)

LastListField(cc, base) ==
  IF cc.pending = 0 THEN cc.fs
  ELSE IF HasMultRet(cc.v) THEN SetList(SetReturns(LastItem(cc), -1), base, cc.na, -1)
  ELSE SetList(IF cc.v.k = "VOID" THEN cc.fs ELSE Exp2NextReg(LastItem(cc)).fs, base, cc.na, cc.pending)

StoreField(r, base, key) == Code(r.fs, Instr("SETTABLE", base, RK(key), RK(r.e)))
FieldValue(key, base, x) == StoreField(Exp2RK(Expr(key.fs, x)), base, key.e)
RecField(cc, base, item) ==
  [cc EXCEPT !.fs = [FieldValue(Exp2RK(Exp2Val(Expr(@, item.key))), base, item.value) EXCEPT !.freereg = cc.fs.freereg]]

ListItem(cc, r) == [cc EXCEPT !.fs = r.fs, !.v = r.e, !.na = @ + 1, !.pending = @ + 1]
ListField(cc, item) == ListItem(cc, Expr(cc.fs, item.value))

Item(cc, base, item) == IF item.keyed THEN RecField(cc, base, item) ELSE ListField(cc, item)
Items(cc, base, items) ==
  IF items = <<>> \/ ~cc.fs.ok THEN LastListField(cc, base)
  ELSE Items(Item(CloseListField(cc, base), base, Head(items)), base, Tail(items))
TableOf(t, items) ==
  R(Items([fs |-> t.fs, v |-> Exp("VOID", 0), na |-> 0, pending |-> 0], t.e.info, items), t.e)
Constructor(fs, items) ==
  TableOf(Exp2NextReg(Relocable(Code(fs, Instr("NEWTABLE", 0, 0, 0)), Exp("VOID", 0))), items)

\* luaK_exp2nextreg for the last argument, or all that it gives (n = -1).
Args(r) == IF r.e.k = "NONE" THEN r.fs ELSE IF HasMultRet(r.e) THEN SetReturns(r, -1) ELSE Exp2NextReg(r).fs
CallOf(fs, f, open) ==
  Code(Ensure(fs, f.k = "NONRELOC"),
       Instr("CALL", f.info, IF open THEN 0 ELSE fs.freereg - f.info, 2))
Called(fs, f) == R([fs EXCEPT !.freereg = f.info + 1], Exp("CALL", Len(fs.code)))
CallWith(r, f) == Called(CallOf(Args(r), f, HasMultRet(r.e)), f)
FuncArgs(f, args) == CallWith(ExpList(f.fs, args), f.e)

IndexWith(o, x) == Indexed(Exp2Val(Expr(o.fs, x)), o.e)          \* o[x]
SelfIn(key, o) == Self(R(key.fs, o), key.e)
MethodOf(o, name) == SelfIn(CodeString(o.fs, name), o.e)
Operand2(l, op, x) == Posfix(Expr(l.fs, x), op, l.e)
VarargExp(fs) == R(fs, Exp("VARARG", Len(fs.code)))

Expr(fs, x) ==
  CASE x.x = "num" -> R(fs, Exp("KNUM", x.v))
    [] x.x = "str" -> CodeString(fs, x.s)
    [] x.x = "nil" -> R(fs, Exp("NIL", 0))
    [] x.x = "true" -> R(fs, Exp("TRUE", 0))
    [] x.x = "false" -> R(fs, Exp("FALSE", 0))
    [] x.x = "name" -> SingleVar(fs, x.n)
    [] x.x = "dots" ->
         VarargExp(Code([fs EXCEPT !.vararg = IF @ = "needsarg" THEN "hasarg" ELSE @], Instr("VARARG", 0, 1, 0)))
    [] x.x = "func" -> Body(fs, x, FALSE)
    [] x.x = "table" -> Constructor(fs, x.items)
    [] x.x = "paren" -> DischargeVars(Expr(fs, x.e))
    [] x.x = "index" -> IndexWith(Exp2AnyReg(Expr(fs, x.o)), x.key)
    [] x.x \in {"call", "method"} ->
         FuncArgs(IF x.x = "call" THEN Exp2NextReg(Expr(fs, x.f)) ELSE MethodOf(Expr(fs, x.o), x.name), x.args)
    [] x.x = "un" -> Prefix(Expr(fs, x.e), x.op)
    [] x.x = "bin" -> Operand2(Infix(Expr(fs, x.l), x.op), x.op, x.r)

(***************************************************************************)
(* Statements.                                                             *)
(***************************************************************************)
Block(fs, body) == LeaveBlock(Chunk(EnterBlock(fs, FALSE), body))

\* The condition; e.f are the jumps taken when it is false.
NilIsFalse(r) == IF r.e.k = "NIL" THEN [r EXCEPT !.e.k = "FALSE"] ELSE r
Cond(fs, x) == GoIfTrue(NilIsFalse(Expr(fs, x)))

JumpOut(j, loop) == [j.fs EXCEPT !.bl[loop].breaks = @ \cup j.list]
BreakStat(fs) ==
  LET loop == Max({i \in DOMAIN fs.bl : fs.bl[i].breakable})
      upval == \E i \in loop + 1 .. Len(fs.bl) : fs.bl[i].upval
  IN JumpOut(Jump(IF upval THEN Code(fs, Instr("CLOSE", fs.bl[loop].nact, 0, 0)) ELSE fs), loop)

JumpBack(j, target) == PatchList(j.fs, j.list, target)
WhileBody(c, body, start) ==
  PatchToHere(LeaveBlock(JumpBack(Jump(Block(EnterBlock(c.fs, TRUE), body)), start)), c.e.f)
WhileStat(fs, s) == WhileBody(Cond(Label(fs), s.c), s.body, Here(fs))

RepeatUntil(c, start) ==
  LeaveBlock(IF ~Last(c.fs.bl).upval THEN PatchList(LeaveBlock(c.fs), c.e.f, start)
             ELSE JumpBack(Jump(LeaveBlock(PatchToHere(BreakStat(c.fs), c.e.f))), start))
RepeatStat(fs, s) ==
  RepeatUntil(Cond(Chunk(EnterBlock(EnterBlock(Label(fs), TRUE), FALSE), s.body), s.c), Here(fs))

Own(fs) == [fs |-> fs, list |-> {Len(fs.code)}]
\* forbody: p is the jump to the test at the end, which goes back to the body.
Prepare(fs, base, isnum) == IF isnum THEN Own(Code(fs, Instr("FORPREP", base, 0, 0))) ELSE Jump(fs)
LoopBack(fs, base, names, isnum) ==
  IF isnum THEN Own(Code(fs, Instr("FORLOOP", base, 0, 0)))
  ELSE Jump(Code(fs, Instr("TFORLOOP", base, 0, Len(names))))
ForBlock(fs, names, body) ==
  LeaveBlock(Block(Reserve(AdjustLocals(EnterBlock(fs, FALSE), names), Len(names)), body))
ForLoop(p, base, names, isnum, body) ==
  JumpBack(LoopBack(PatchToHere(ForBlock(p.fs, names, body), p.list), base, names, isnum), Len(p.fs.code) + 1)
ForBody(fs, base, names, isnum, body) ==
  LeaveBlock(ForLoop(Prepare(AdjustLocals(fs, <<"(for 1)", "(for 2)", "(for 3)">>), base, isnum),
                     base, names, isnum, body))

LoadOne(r) == Reserve(Code(r.fs, LoadInstr(r.e, r.fs.freereg)), 1)     \* the default step
ForStep(fs, n) == IF n = 3 THEN fs ELSE LoadOne(AsConstant(R(fs, Exp("K", 0)), Num(1)))
ForNum(fs, s) ==
  ForBody(ForStep(Exp2NextReg(ExpList(EnterBlock(fs, TRUE), s.exps)).fs, Len(s.exps)),
          fs.freereg, <<s.n>>, TRUE, s.body)
ForList(fs, s) ==
  ForBody(CheckStack(AdjustAssign(ExpList(EnterBlock(fs, TRUE), s.exps), 3, Len(s.exps)), 3),
          fs.freereg, s.names, FALSE, s.body)

\* if: the jumps out of the branches taken meet at the end.
Escape(a, j) == [a EXCEPT !.fs = PatchToHere(j.fs, a.flist), !.escape = @ \cup j.list]
ThenBlock(a, t, body) == [a EXCEPT !.fs = Block(t.fs, body), !.flist = t.e.f, !.first = FALSE]
ThenCond(a, c) == ThenBlock(a, Cond(a.fs, c.c), c.body)
Clauses(a, cs) ==
  IF cs = <<>> THEN a
  ELSE Clauses(ThenCond(IF a.first THEN a ELSE Escape(a, Jump(a.fs)), Head(cs)), Tail(cs))
ElseBlock(a, body) == PatchToHere(Block(a.fs, body), a.escape)
EndIf(a, els) == IF els = <<>> THEN PatchToHere(a.fs, a.escape \cup a.flist)
                 ELSE ElseBlock(Escape(a, Jump(a.fs)), els[1])
IfStat(fs, s) ==
  EndIf(Clauses([fs |-> fs, flist |-> {}, escape |-> {}, first |-> TRUE], s.clauses), s.els)

\* check_conflict: a local assigned after a table is indexed with it.
CheckConflict(fs, lhs, v) ==
  LET Uses(e) == e.k = "INDEXED" /\ (e.info = v.info \/ e.aux = v.info)
      safe(r) == IF r = v.info THEN fs.freereg ELSE r
      conflict == \E i \in DOMAIN lhs : Uses(lhs[i])
  IN [fs |-> IF conflict THEN Reserve(Code(fs, Instr("MOVE", fs.freereg, v.info, 0)), 1) ELSE fs,
      lhs |-> [i \in DOMAIN lhs |-> IF Uses(lhs[i])
                                    THEN [lhs[i] EXCEPT !.info = safe(@), !.aux = safe(@)] ELSE lhs[i]]]
NoConflict(fs, lhs, v) == [fs |-> fs, lhs |-> lhs]
Conflicts(fs, lhs, v) == IF v.k = "LOCAL" THEN CheckConflict(fs, lhs, v) ELSE NoConflict(fs, lhs, v)

\* The variables read so far, and one more.
WithVar(c, v) == [fs |-> c.fs, lhs |-> Append(c.lhs, v)]
NextVar(r, lhs) == WithVar(IF lhs = <<>> THEN NoConflict(r.fs, lhs, r.e) ELSE Conflicts(r.fs, lhs, r.e), r.e)
Variables(c, vars) == IF vars = <<>> THEN c ELSE Variables(NextVar(Expr(c.fs, Head(vars)), c.lhs), Tail(vars))

StoreAll(fs, lhs) ==            \* from the last variable to the first
  FoldRight(LAMBDA v, g : StoreVar(R(g, Exp("NONRELOC", g.freereg - 1)), v), lhs, fs)
DropExtra(fs, n) == [fs EXCEPT !.freereg = IF n > 0 THEN @ - n ELSE @]
StoreList(r, lhs, n) ==
  LET same == n = Len(lhs)
  IN StoreAll(IF same THEN StoreVar(SetOneRet(r), Last(lhs))
              ELSE DropExtra(AdjustAssign(r, Len(lhs), n), n - Len(lhs)),
              IF same THEN Front(lhs) ELSE lhs)
AssignTo(c, exps) == StoreList(ExpList(c.fs, exps), c.lhs, Len(exps))
Assignment(fs, vars, exps) == AssignTo(Variables(NoConflict(fs, <<>>, Nil), vars), exps)

RetCode(fs, first, n) == Code(fs, Instr("RETURN", first, n + 1, 0))
RetOpen(fs, r, n) ==            \* return f(x) is a tail call
  RetCode(IF r.e.k = "CALL" /\ n = 1
          THEN [Ensure(fs, fs.code[r.e.info].a = NAct(fs)) EXCEPT !.code[r.e.info].op = "TAILCALL"] ELSE fs,
          NAct(fs), -1)
RetOne(r) == RetCode(r.fs, r.e.info, 1)
RetAll(fs, n) == RetCode(Ensure(fs, n = fs.freereg - NAct(fs)), NAct(fs), n)
RetValues(r, n) == IF HasMultRet(r.e) THEN RetOpen(SetReturns(r, -1), r, n)
                   ELSE IF n = 1 THEN RetOne(Exp2AnyReg(r)) ELSE RetAll(Exp2NextReg(r).fs, n)
FuncStat(v, s) == StoreVar(Body(v.fs, s.f, s.self), v.e)
LocalFuncStat(fs, s) ==
  StoreVar(Body(AdjustLocals(Reserve(fs, 1), <<s.n>>), s.f, FALSE), Exp("LOCAL", fs.freereg))

\* The statements that begin with a list of expressions, compiled as r.
OfList(r, s) ==
  CASE s.x = "local" ->
         AdjustLocals(AdjustAssign(IF s.exps = <<>> THEN [r EXCEPT !.e.k = "VOID"] ELSE r, Len(s.names), Len(s.exps)),
                      s.names)
    [] s.x = "return" -> IF s.exps = <<>> THEN RetCode(r.fs, 0, 0) ELSE RetValues(r, Len(s.exps))
    [] s.x = "callstat" -> [r.fs EXCEPT !.code[r.e.info].c = 1]

Statement(fs, s) ==
  CASE s.x \in {"local", "return", "callstat"} -> OfList(ExpList(fs, IF s.x = "callstat" THEN <<s.e>> ELSE s.exps), s)
    [] s.x = "localfunc" -> LocalFuncStat(fs, s)
    [] s.x = "function" -> FuncStat(Expr(fs, s.target), s)
    [] s.x = "assign" -> Assignment(fs, s.vars, s.exps)
    [] s.x = "do" -> Block(fs, s.body)
    [] s.x = "while" -> WhileStat(fs, s)
    [] s.x = "repeat" -> RepeatStat(fs, s)
    [] s.x = "if" -> IfStat(fs, s)
    [] s.x = "fornum" -> ForNum(fs, s)
    [] s.x = "forin" -> ForList(fs, s)
    [] s.x = "break" -> BreakStat(fs)

EndStatement(fs) == [Ensure(fs, fs.maxstack >= fs.freereg /\ fs.freereg >= NAct(fs)) EXCEPT !.freereg = NAct(fs)]
Chunk(fs, body) ==              \* a failed assertion ends it
  IF body = <<>> \/ ~fs.ok THEN fs ELSE Chunk(EndStatement(Statement(fs, Head(body))), Tail(body))

\* luaY_parser
Compile(body) == Proto(Chunk([OpenFunc(<<>>) EXCEPT !.vararg = "main"], body))
=============================================================================
