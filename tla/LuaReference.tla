------------------------------ MODULE LuaReference ------------------------------
(***************************************************************************)
(* What the text of a Lua 5.1 program means: its values, its calls of emit *)
(* and whether it fails, with every local a cell of its own and every      *)
(* closure an environment.  Operands are taken from left to right.         *)
(*                                                                         *)
(* A state st has the cells, the tables (the first holds the globals), the *)
(* closures, what emit was given, and err once the program has failed:     *)
(* nothing changes any more then.                                          *)
(***************************************************************************)
EXTENDS Integers, Sequences, FiniteSets, SequencesExt, FiniteSetsExt, TLC

Nil == <<"nil">>
Bool(b) == <<"bool", b>>
Num(n) == <<"num", n>>
Str(s) == <<"str", s>>
Truth(v) == v # Nil /\ v # Bool(FALSE)

\* Conversions between numbers and strings.
Decimal == [s \in {ToString(n) : n \in -20 .. 99} |-> CHOOSE n \in -20 .. 99 : ToString(n) = s]
ToText(v) == IF v[1] = "num" THEN ToString(v[2]) ELSE v[2]
ToNumber(v) ==
  IF v[1] = "num" THEN v
  ELSE IF v[1] = "str" /\ v[2] \in DOMAIN Decimal THEN Num(Decimal[v[2]]) ELSE Nil

\* #v, or Nil for a value without a length.
Length(tabs, v) ==
  IF v[1] = "str" THEN Num(Len(v[2]))
  ELSE IF v[1] = "tab" THEN Num(Min({n \in 0 .. Cardinality(DOMAIN tabs[v[2]]) : Num(n + 1) \notin DOMAIN tabs[v[2]]}))
  ELSE Nil

V(st, vs) == [st |-> st, vs |-> vs]
First(r) == IF r.vs = <<>> THEN Nil ELSE r.vs[1]
Fail(st) == [st EXCEPT !.err = TRUE]
FailUnless(p, st) == IF p THEN st ELSE Fail(st)
Local(st, v) == [st EXCEPT !.cells = Append(@, v)]
NewTable(st, t) == [st EXCEPT !.tabs = Append(@, t)]
Stored(t, k, v) == IF v = Nil THEN [j \in DOMAIN t \ {k} |-> t[j]] ELSE (k :> v) @@ t
Index(st, t, k) == IF t[1] = "tab" /\ k \in DOMAIN st.tabs[t[2]] THEN st.tabs[t[2]][k] ELSE Nil
SetIndex(st, t, k, v) ==
  IF st.err \/ t[1] # "tab" \/ k = Nil THEN Fail(st) ELSE [st EXCEPT !.tabs[t[2]] = Stored(@, k, v)]
Pad(vs, n) == [i \in 1 .. n |-> IF i \in DOMAIN vs THEN vs[i] ELSE Nil]

\* A function that mentions `...' has no table arg.
RECURSIVE Mentions(_)
Mentions(x) ==
  LET parts == CASE x.x = "dots" -> {}
                 [] x.x \in {"paren", "un", "callstat"} -> {x.e}
                 [] x.x = "bin" -> {x.l, x.r}
                 [] x.x = "index" -> {x.o, x.key}
                 [] x.x = "call" -> {x.f} \cup ToSet(x.args)
                 [] x.x \in {"local", "return", "assign", "forin", "fornum"} -> ToSet(x.exps)
                 [] x.x = "table" -> {x.items[i].value : i \in DOMAIN x.items}
                 [] OTHER -> {}
  IN x.x = "dots" \/ \E p \in parts : Mentions(p)

Calc(op, x, y) ==
  CASE op = "+" -> x + y [] op = "-" -> x - y [] op = "*" -> x * y
    [] op = "%" /\ y > 0 -> x % y [] op = "%" /\ y < 0 -> -((-x) % (-y))

Defined(op, a, b) ==            \* the operands op takes
  CASE op \in {"==", "~="} -> TRUE
    [] op = ".." -> {a[1], b[1]} \subseteq {"num", "str"}
    [] op \in {"<", "<=", ">", ">="} -> a[1] = "num" /\ b[1] = "num"
    [] OTHER -> Nil \notin {ToNumber(a), ToNumber(b)} /\ ~(op = "%" /\ ToNumber(b) = Num(0))

ResultOf(op, a, b) ==
  CASE op = "==" -> Bool(a = b) [] op = "~=" -> Bool(a # b)
    [] op = "<" -> Bool(a[2] < b[2]) [] op = "<=" -> Bool(a[2] <= b[2])
    [] op = ">" -> Bool(a[2] > b[2]) [] op = ">=" -> Bool(a[2] >= b[2])
    [] op = ".." -> Str(ToText(a) \o ToText(b))
    [] OTHER -> Num(Calc(op, ToNumber(a)[2], ToNumber(b)[2]))

One(st, v) == V(st, <<v>>)
OrFail(st, v) == V(FailUnless(v # Nil, st), <<v>>)
Negative(n) == IF n = Nil THEN Nil ELSE Num(-n[2])
Binary(st, op, a, b) == IF Defined(op, a, b) THEN One(st, ResultOf(op, a, b)) ELSE One(Fail(st), Nil)
Unary(st, op, a) ==
  CASE op = "not" -> One(st, Bool(~Truth(a)))
    [] op = "#" -> OrFail(st, Length(st.tabs, a))
    [] op = "-" -> OrFail(st, Negative(ToNumber(a)))

RECURSIVE Eval(_, _, _), EvalAll(_, _, _), Run(_, _, _), While(_, _, _), Repeat(_, _, _),
          ForNum(_, _, _, _, _, _), ForIn(_, _, _, _, _), If(_, _, _, _)

Multiple(x) == x.x \in {"call", "method", "dots"}

\* The values of a list: each but the last gives one.
Before(v, r) == V(r.st, <<v>> \o r.vs)
AndRest(r, env, xs) == IF xs = <<>> THEN r ELSE Before(First(r), EvalAll(r.st, env, xs))
EvalAll(st, env, xs) == IF xs = <<>> THEN V(st, <<>>) ELSE AndRest(Eval(st, env, Head(xs)), env, Tail(xs))

\* A call: a cell for each parameter and one for arg.
NeedsArg(f) == f.dots /\ ~\E i \in DOMAIN f.body : Mentions(f.body[i])
ArgTable(rest) == (Str("n") :> Num(Len(rest))) @@ [k \in {Num(i) : i \in DOMAIN rest} |-> rest[k[2]]]
WithArg(st, f, rest) ==
  IF NeedsArg(f) THEN Local(NewTable(st, ArgTable(rest)), <<"tab", Len(st.tabs) + 1>>) ELSE Local(st, Nil)
NamesOf(f, base) ==
  [name \in ToSet(f.params) \cup (IF f.dots THEN {"arg"} ELSE {}) |->
     base + IF f.dots /\ name = "arg" THEN Len(f.params) + 1
            ELSE Max({i \in DOMAIN f.params : f.params[i] = name})]
Enter(st, c, args, rest) ==
  Run(WithArg([st EXCEPT !.cells = @ \o Pad(args, Len(c.f.params))], c.f, rest),
      [names |-> NamesOf(c.f, Len(st.cells)) @@ c.env, dots |-> rest], c.f.body)
Results(r) == V(r.st, r.vs)
CallLua(st, c, args) == Results(Enter(st, c, args, SubSeq(args, Len(c.f.params) + 1, Len(args))))
Apply(st, f, args) ==
  CASE st.err -> V(st, <<>>)
    [] ~st.err /\ f[1] = "c" -> V([st EXCEPT !.out = Append(@, args)], args)
    [] ~st.err /\ f[1] = "fun" -> CallLua(st, st.cls[f[2]], args)
    [] OTHER -> V(Fail(st), <<>>)

\* The items of a table constructor; those of a list are numbered.
Keyed(a, st, k, v) == [a EXCEPT !.st = SetIndex(st, a.t, k, v)]
KeyedItem(a, env, x, k) == LET v == Eval(k.st, env, x.value) IN Keyed(a, v.st, First(k), First(v))
Listed(a, st, vs) ==
  [a EXCEPT !.n = @ + Len(vs),
     !.st = FoldLeft(LAMBDA s, j : SetIndex(s, a.t, Num(a.n + j), vs[j]), st, [j \in DOMAIN vs |-> j])]
ListItem(a, v, all) == Listed(a, v.st, IF all THEN v.vs ELSE <<First(v)>>)
Item(a, env, x, last) ==
  IF x.keyed THEN KeyedItem(a, env, x, Eval(a.st, env, x.key))
  ELSE ListItem(a, Eval(a.st, env, x.value), last /\ Multiple(x.value))
TableItems(st, env, items, t) ==
  One(FoldLeft(LAMBDA a, i : Item(a, env, items[i], i = Len(items)), [st |-> NewTable(st, <<>>), t |-> t, n |-> 0],
               [i \in DOMAIN items |-> i]).st, t)

Closure(st, env, x) ==
  One([st EXCEPT !.cls = Append(@, [f |-> x, env |-> env.names])], <<"fun", Len(st.cls) + 1>>)

NameValue(st, env, n) ==
  IF n \in DOMAIN env.names THEN st.cells[env.names[n]] ELSE Index(st, <<"tab", 1>>, Str(n))
TableOrFail(o) == FailUnless(First(o)[1] = "tab", o.st)
IndexBy(o, k) == One(FailUnless(o[1] = "tab", k.st), Index(k.st, o, First(k)))
IndexIn(o, env, x) == IndexBy(First(o), Eval(o.st, env, x))
CallWith(f, a, self) == Apply(a.st, f, self \o a.vs)
CallOf(f, env, args) == CallWith(First(f), EvalAll(f.st, env, args), <<>>)
MethodOf(o, env, x) ==
  CallWith(Index(o.st, First(o), Str(x.name)), EvalAll(TableOrFail(o), env, x.args), <<First(o)>>)
UnaryOf(r, op) == Unary(r.st, op, First(r))
BinaryOf(l, op, r) == Binary(r.st, op, l, First(r))
Short(l, op) == op \in {"and", "or"} /\ Truth(First(l)) = (op = "or")
Single(r) == One(r.st, First(r))
RightOf(l, env, op, x) ==
  IF Short(l, op) THEN Single(l)
  ELSE IF op \in {"and", "or"} THEN Single(Eval(l.st, env, x)) ELSE BinaryOf(First(l), op, Eval(l.st, env, x))

Eval(st, env, x) ==
  CASE x.x = "num" -> One(st, Num(x.v))
    [] x.x = "str" -> One(st, Str(x.s))
    [] x.x = "nil" -> One(st, Nil)
    [] x.x \in {"true", "false"} -> One(st, Bool(x.x = "true"))
    [] x.x = "dots" -> V(st, env.dots)
    [] x.x = "func" -> Closure(st, env, x)
    [] x.x = "table" -> TableItems(st, env, x.items, <<"tab", Len(st.tabs) + 1>>)
    [] x.x = "name" -> One(st, NameValue(st, env, x.n))
    [] x.x = "paren" -> Single(Eval(st, env, x.e))
    [] x.x = "index" -> IndexIn(Eval(st, env, x.o), env, x.key)
    [] x.x = "call" -> CallOf(Eval(st, env, x.f), env, x.args)
    [] x.x = "method" -> MethodOf(Eval(st, env, x.o), env, x)
    [] x.x = "un" -> UnaryOf(Eval(st, env, x.e), x.op)
    [] x.x = "bin" -> RightOf(Eval(st, env, x.l), env, x.op, x.r)

\* A statement ends in its state, the environment of what follows it, how
\* (next, break, return) and the values returned.
Done(st, env) == [st |-> st, env |-> env, how |-> "next", vs |-> <<>>]

Declare(st, env, names, vs) ==
  FoldLeft(LAMBDA a, i : Done(Local(a.st, Pad(vs, Len(names))[i]),
                              [a.env EXCEPT !.names = (names[i] :> Len(a.st.cells) + 1) @@ @]),
           Done(st, env), [i \in DOMAIN names |-> i])

Assign(st, env, x, o, k, v) ==      \* o[k] of the variable x evaluated before
  IF x.x = "index" THEN SetIndex(st, o, k, v)
  ELSE IF st.err THEN st
  ELSE IF x.n \in DOMAIN env.names THEN [st EXCEPT !.cells[env.names[x.n]] = v]
  ELSE SetIndex(st, <<"tab", 1>>, Str(x.n), v)

\* A block, a loop that ended or was broken out of.
Inner(r, env) == [r EXCEPT !.env = env]
Loop(r, env) == [r EXCEPT !.env = env, !.how = IF @ = "break" THEN "next" ELSE @]
Stops(r) == r.st.err \/ r.how # "next"

WhileAgain(r, env, s) == IF Stops(r) THEN Loop(r, env) ELSE While(r.st, env, s)
WhileIf(c, env, s) ==
  IF c.st.err \/ ~Truth(First(c)) THEN Done(c.st, env) ELSE WhileAgain(Run(c.st, env, s.body), env, s)
While(st, env, s) == WhileIf(Eval(st, env, s.c), env, s)

Until(c, env, s) == IF c.st.err \/ Truth(First(c)) THEN Done(c.st, env) ELSE Repeat(c.st, env, s)
RepeatAgain(r, env, s) == IF Stops(r) THEN Loop(r, env) ELSE Until(Eval(r.st, r.env, s.c), env, s)
Repeat(st, env, s) == RepeatAgain(Run(st, env, s.body), env, s)

RunWith(d, body) == Run(d.st, d.env, body)
ForNumNext(r, env, s, i, limit, step) ==
  IF Stops(r) THEN Loop(r, env) ELSE ForNum(r.st, env, s, i + step, limit, step)
ForNum(st, env, s, i, limit, step) ==
  IF (IF step > 0 THEN i > limit ELSE i < limit) THEN Done(st, env)
  ELSE ForNumNext(RunWith(Declare(st, env, <<s.n>>, <<Num(i)>>), s.body), env, s, i, limit, step)
ForNumFrom(st, env, s, n) ==
  IF st.err \/ \E i \in 1 .. 3 : n[i] = Nil THEN Done(Fail(st), env)
  ELSE ForNum(st, env, s, n[1][2], n[2][2], n[3][2])
ForNumOver(e, env, s) ==
  ForNumFrom(e.st, env, s, [i \in 1 .. 3 |-> IF i <= Len(s.exps) THEN ToNumber(e.vs[i]) ELSE Num(1)])

ForInNext(r, env, s, f, control) == IF Stops(r) THEN Loop(r, env) ELSE ForIn(r.st, env, s, f, control)
ForInGiven(st, env, s, f, vs) ==
  IF st.err \/ vs[1] = Nil THEN Done(st, env)
  ELSE ForInNext(RunWith(Declare(st, env, s.names, vs), s.body), env, s, f, vs[1])
ForInAt(a, env, s, f) == ForInGiven(a.st, env, s, f, Pad(a.vs, Len(s.names)))
ForIn(st, env, s, f, control) == ForInAt(Apply(st, f[1], <<f[2], control>>), env, s, f)
ForInOver(e, env, s) == LET f == Pad(e.vs, 3) IN ForIn(e.st, env, s, f, f[3])

IfCond(c, env, clauses, els) ==
  IF c.st.err THEN Done(c.st, env)
  ELSE IF Truth(First(c)) THEN Inner(Run(c.st, env, Head(clauses).body), env)
  ELSE If(c.st, env, Tail(clauses), els)
If(st, env, clauses, els) ==
  IF clauses # <<>> THEN IfCond(Eval(st, env, Head(clauses).c), env, clauses, els)
  ELSE IF els = <<>> THEN Done(st, env) ELSE Inner(Run(st, env, els[1]), env)

\* Assignment: tables and keys of the variables, then the values.
TwoValues(o, k) == [st |-> k.st, o |-> o, k |-> First(k)]
KeyIn(o, env, x) == TwoValues(First(o), Eval(o.st, env, x))
PlaceOf(st, env, x) ==
  IF x.x = "index" THEN KeyIn(Eval(st, env, x.o), env, x.key) ELSE [st |-> st, o |-> Nil, k |-> Nil]
Places(st, env, vars) ==
  FoldLeft(LAMBDA a, x : Append(a, PlaceOf(IF a = <<>> THEN st ELSE Last(a).st, env, x)), <<>>, vars)
AssignAll(st, env, vars, at, vs) ==
  FoldRight(LAMBDA i, g : Assign(g, env, vars[i], at[i].o, at[i].k, vs[i]), [i \in DOMAIN vars |-> i], st)
AssignValues(e, env, vars, at) == Done(AssignAll(e.st, env, vars, at, Pad(e.vs, Len(vars))), env)
AssignTo(at, env, s) == AssignValues(EvalAll(Last(at).st, env, s.exps), env, s.vars, at)

Function(s) == IF s.self THEN [s.f EXCEPT !.params = <<"self">> \o @] ELSE s.f
FunctionAt(f, env, x, at) == Done(Assign(f.st, env, x, at.o, at.k, First(f)), env)
FunctionTo(at, env, s) == FunctionAt(Closure(at.st, env, Function(s)), env, s.target, at)
SetLocal(f, env, n) == Done([f.st EXCEPT !.cells[env.names[n]] = First(f)], env)
LocalFunction(d, s) == SetLocal(Closure(d.st, d.env, s.f), d.env, s.n)
Returned(e, env) == [st |-> e.st, env |-> env, how |-> "return", vs |-> e.vs]
DeclareAll(e, env, names) == Declare(e.st, env, names, e.vs)

Exec(st, env, s) ==
  CASE s.x = "local" -> DeclareAll(EvalAll(st, env, s.exps), env, s.names)
    [] s.x = "localfunc" -> LocalFunction(Declare(st, env, <<s.n>>, <<Nil>>), s)
    [] s.x = "function" -> FunctionTo(PlaceOf(st, env, s.target), env, s)
    [] s.x = "assign" -> AssignTo(Places(st, env, s.vars), env, s)
    [] s.x = "callstat" -> Done(Eval(st, env, s.e).st, env)
    [] s.x = "do" -> Inner(Run(st, env, s.body), env)
    [] s.x = "while" -> While(st, env, s)
    [] s.x = "repeat" -> Repeat(st, env, s)
    [] s.x = "if" -> If(st, env, s.clauses, s.els)
    [] s.x = "fornum" -> ForNumOver(EvalAll(st, env, s.exps), env, s)
    [] s.x = "forin" -> ForInOver(EvalAll(st, env, s.exps), env, s)
    [] s.x = "return" -> Returned(EvalAll(st, env, s.exps), env)
    [] s.x = "break" -> [Done(st, env) EXCEPT !.how = "break"]

RunRest(r, body) == IF Stops(r) THEN r ELSE Run(r.st, r.env, body)
Run(st, env, body) ==
  IF body = <<>> \/ st.err THEN Done(st, env) ELSE RunRest(Exec(st, env, Head(body)), Tail(body))

EndOf(r) == [out |-> r.st.out, err |-> r.st.err, res |-> IF r.how = "return" THEN r.vs ELSE <<>>]
Outcome(body) ==
  EndOf(Run([cells |-> <<>>, tabs |-> <<Str("emit") :> <<"c", "emit">>>>, cls |-> <<>>, out |-> <<>>, err |-> FALSE],
            [names |-> <<>>, dots |-> <<>>], body))
=============================================================================
