-------------------------------- MODULE MCLua --------------------------------
(***************************************************************************)
(* The parts of the Lua core other than its collector, side by side: the   *)
(* compiler and the machine, the lexer, binary chunks, C calls, tables,    *)
(* table.sort, and the buffers and references of lauxlib.c.  They share no *)
(* state: a behaviour moves one of them (part), and the others stay in     *)
(* their first state, or empty where they have many.                       *)
(***************************************************************************)
EXTENDS HashTable

CONSTANTS MaxIndexRK, FieldsPerFlush, MaxArgC, Programs, StackSize,              \* compiler and machine
          Texts, Protos, Files, IntSize, NumberSize, InstructionSize,            \* lexer, binary chunks
          Thread, Main, MaxC, Slack, BasicCI, MaxCI, MaxOpen, MaxFrames,         \* calls
          string, object,                                                        \* tables
          Element, MaxLen, Orders,                                               \* table.sort
          BufferSize, Limit, Sizes, MaxAdded, Values, MaxRef                     \* lauxlib.c

VARIABLES part,
          program, m,
          text, ls, lookahead, given,
          job, file, pc, pieces, result,
          cs, th,
          array, less, out,
          lvl, stack, buffer, added, pushed, refs, live

Machine == INSTANCE LuaMachine
Scanner == INSTANCE Lexer
Chunks == INSTANCE Loader
Threads == INSTANCE Calls
Sorting == INSTANCE TableSort WITH a <- array
Aux == INSTANCE AuxLib WITH t <- refs, result <- pushed

ASSUME Threads!LimitsAssumption

(***************************************************************************)
(* One part moves.                                                         *)
(***************************************************************************)
MCInit ==
  /\ part \in {"machine", "scanner", "chunks", "threads", "mapping", "sorting", "aux"}
  /\ IF part = "machine" THEN Machine!Init ELSE program = <<>> /\ m = NIL
  /\ IF part = "scanner" THEN Scanner!Init ELSE text = <<>> /\ ls = NIL /\ lookahead = NIL /\ given = <<>>
  /\ IF part = "chunks" THEN Chunks!Init ELSE job = NIL /\ file = <<>> /\ pc = "none" /\ pieces = <<>> /\ result = NIL
  /\ IF part = "mapping" THEN Init ELSE hash = NIL /\ t = NIL /\ trav = NIL /\ map = NIL
  /\ IF part = "sorting" THEN Sorting!Init ELSE array = <<>> /\ less = {} /\ out = "unsorted"
  /\ Threads!Init /\ Aux!Init

\* What is not of p stays.
Still(p) ==
  /\ UNCHANGED part
  /\ IF p = "machine" THEN TRUE ELSE UNCHANGED <<program, m>>
  /\ IF p = "scanner" THEN TRUE ELSE UNCHANGED <<text, ls, lookahead, given>>
  /\ IF p = "chunks" THEN TRUE ELSE UNCHANGED <<job, file, pc, pieces, result>>
  /\ IF p = "threads" THEN TRUE ELSE UNCHANGED <<cs, th>>
  /\ IF p = "mapping" THEN TRUE ELSE UNCHANGED vars
  /\ IF p = "sorting" THEN TRUE ELSE UNCHANGED <<array, less, out>>
  /\ IF p = "aux" THEN TRUE ELSE UNCHANGED <<lvl, stack, buffer, added, pushed, refs, live>>

MCNext ==
  \/ part = "machine" /\ Machine!Next /\ Still("machine")
  \/ part = "scanner" /\ Scanner!Next /\ Still("scanner")
  \/ part = "chunks" /\ Chunks!Next /\ Still("chunks")
  \/ part = "threads" /\ Threads!Next /\ Still("threads")
  \/ part = "mapping" /\ Next /\ Still("mapping")
  \/ part = "sorting" /\ Sorting!Sort /\ Still("sorting")
  \/ part = "aux" /\ Aux!Next /\ Still("aux")

MCSpec == MCInit /\ [][MCNext]_<<part, vars, program, m, text, ls, lookahead, given, job, file, pc, pieces, result,
                                 cs, th, array, less, out, lvl, stack, buffer, added, pushed, refs, live>>

(***************************************************************************)
(* Properties of the parts.                                                *)
(***************************************************************************)
\* A program that runs shows and returns what its text means.
RunsAsWritten == part = "machine" => Machine!RunsAsWritten

\* The code of every program passes the checker of ldebug.c and the compiler's own
\* assertions, and while it runs frames, open results and upvalues are in order.
CodeAndFramesSound == part = "machine" => Machine!CodeIsSound /\ Machine!FrameInOrder

\* The parser is given the tokens the text has.
TokensAsWritten == part = "scanner" => Scanner!TokensAsWritten

\* A chunk is loaded as it was dumped, or not at all.
LoadsWhatWasDumped == part = "chunks" => Chunks!LoadsWhatWasDumped

\* Call information in step with the C stack, and the C levels counted.
InStep == part = "threads" => Threads!InStep /\ Threads!DepthIsCounted

\* An error or a yield leaves one protected call or resume, restored.
UnwindsToInnermost == [][part = "threads" => Threads!Unwinds]_<<part, cs, th>>

\* A table is the map the program built, and a traversal misses and repeats no key that stays.
TablesSound == part = "mapping" => TableIsMap /\ TraversalSound

\* table.sort sorts, and whatever the order function it only permutes.
SortsInPlace == [][part = "sorting" => Sorting!SortStep]_<<part, array, less, out>>

\* luaL_Buffer holds what was added, within its share of the stack, and references in use
\* are distinct and keep their values.
AuxSound == part = "aux" => Aux!BufferHolds /\ Aux!RefsHold

\* The text of programs.
N(n) == [x |-> "num", v |-> n]
S(s) == [x |-> "str", s |-> s]
Id(n) == [x |-> "name", n |-> n]
NilX == [x |-> "nil"]
True == [x |-> "true"]
False2 == [x |-> "false"]
Dots == [x |-> "dots"]
Fn(params, b) == [x |-> "func", params |-> params, dots |-> FALSE, body |-> b]
FnV(params, b) == [x |-> "func", params |-> params, dots |-> TRUE, body |-> b]
It(v) == [keyed |-> FALSE, value |-> v]
Kv(k, v) == [keyed |-> TRUE, key |-> k, value |-> v]
Tb(items) == [x |-> "table", items |-> items]
List(xs) == Tb([i \in DOMAIN xs |-> It(xs[i])])
Par(e) == [x |-> "paren", e |-> e]
Ix(o, k) == [x |-> "index", o |-> o, key |-> k]
App(f, args) == [x |-> "call", f |-> f, args |-> args]
Meth(o, n, args) == [x |-> "method", o |-> o, name |-> n, args |-> args]
Un(op, e) == [x |-> "un", op |-> op, e |-> e]
Bin(op, l, r) == [x |-> "bin", op |-> op, l |-> l, r |-> r]
Loc(names, exps) == [x |-> "local", names |-> names, exps |-> exps]
LocF(n, f) == [x |-> "localfunc", n |-> n, f |-> f]
DefF(target, f, self) == [x |-> "function", target |-> target, f |-> f, self |-> self]
Asg(vs, exps) == [x |-> "assign", vars |-> vs, exps |-> exps]
Do(e) == [x |-> "callstat", e |-> e]
Blk(b) == [x |-> "do", body |-> b]
Whl(c, b) == [x |-> "while", c |-> c, body |-> b]
Rep(b, c) == [x |-> "repeat", body |-> b, c |-> c]
If1(c, b) == [x |-> "if", clauses |-> <<[c |-> c, body |-> b]>>, els |-> <<>>]
IfE(c, b, e) == [x |-> "if", clauses |-> <<[c |-> c, body |-> b]>>, els |-> <<e>>]
If2(c, b, d, e) == [x |-> "if", clauses |-> <<[c |-> c, body |-> b], [c |-> d, body |-> e]>>, els |-> <<>>]
ForN(n, exps, b) == [x |-> "fornum", n |-> n, exps |-> exps, body |-> b]
ForI(names, exps, b) == [x |-> "forin", names |-> names, exps |-> exps, body |-> b]
Ret(exps) == [x |-> "return", exps |-> exps]
Brk == [x |-> "break"]

a == Id("a")
b == Id("b")
c == Id("c")
tb == Id("t")
Emit(args) == App(Id("emit"), args)
Show(args) == Do(Emit(args))
Inc(v) == Asg(<<v>>, <<Bin("+", v, N(1))>>)

(***************************************************************************)
(* Conditions: the value of an expression and the branches it takes.       *)
(***************************************************************************)
Given == {<<NilX, N(1)>>, <<N(1), False2>>}
Atoms == {a, b, Un("not", a), Bin("==", a, b), Emit(<<a>>)}
Pairs == {Bin(op, x, y) : op \in {"and", "or"}, x \in Atoms \cup {N(7), NilX}, y \in Atoms \cup {N(7), NilX}}
Small == {Bin("and", a, b), Bin("or", a, b), Bin("and", Bin("==", a, b), b), Bin("or", Un("not", b), a), Par(Bin("or", b, a))}
Logic == Pairs \cup {Un("not", x) : x \in Small} \cup {Bin("==", x, y) : x \in Small, y \in {a, True}}
         \cup {Bin(op, x, y) : op \in {"and", "or"}, x \in Small, y \in Small \cup {a, N(7)}}
         \cup {Bin("or", Un("not", Bin("and", x, y)), b) : x \in Small, y \in {a, Bin("==", a, b)}}
Conditions ==
  {<<Loc(<<"a", "b">>, g), Show(<<e, b>>)>> : g \in Given, e \in Logic}
  \cup {<<Loc(<<"a", "b">>, g), Loc(<<"c">>, <<e>>),
          IfE(e, <<Show(<<c>>)>>, <<Show(<<c, N(2)>>)>>), Ret(<<c>>)>> : g \in Given, e \in Logic}
  \cup {<<Loc(<<"a", "b">>, g), Loc(<<"c">>, <<N(0)>>),
          Whl(e, <<Inc(c), Show(<<b>>), Asg(<<a, b>>, <<b>>), If1(Bin("==", c, N(2)), <<Brk>>)>>),
          Asg(<<a>>, <<e>>), Show(<<a>>)>> : g \in Given, e \in Pairs}
  \cup {<<Loc(<<"a", "b">>, g), If2(e, <<Show(<<a>>)>>, Bin("<", N(0), N(1)), <<Asg(<<c>>, <<Un("not", e)>>)>>), Show(<<c>>)>> :
          g \in Given, e \in Small}

(***************************************************************************)
(* Operators, constants and strings.                                       *)
(***************************************************************************)
Operands == {N(3), S("2"), a, Id("g"), Bin("+", a, N(1))}
Arith1 == {Bin(op, x, y) : op \in {"+", "-", "*", "%"}, x \in Operands, y \in Operands \cup {N(0)}}
Arithmetics ==
  {<<Loc(<<"a">>, <<N(4)>>), Asg(<<Id("g")>>, <<N(5)>>), Show(<<e>>), Ret(<<e>>)>> :
     e \in Arith1 \cup {Bin("-", N(9), e) : e \in Arith1} \cup {Un("-", x) : x \in Operands} \cup {Un("-", N(-3))}
           \cup {Bin("..", x, Bin("..", y, z)) : x \in Operands, y \in {S("x"), a}, z \in {S("y"), NilX}}
           \cup {Bin("..", Bin("..", S("x"), a), S("y")), Un("#", S("ab")), Un("#", a), Un("#", List(<<a, NilX, a>>))}
           \cup {Bin("==", x, y) : x \in Operands \cup {NilX, True}, y \in Operands}}
  \cup {<<Loc(<<"a">>, <<N(4)>>), If2(Bin(op, x, y), <<Show(<<x>>)>>, Bin(op, y, x), <<Show(<<y>>)>>)>> :
          op \in {"<", ">", "<=", ">=", "~="}, x \in {a, N(3), Id("g"), S("2")}, y \in {a, N(4)}}
  \cup {<<Loc(<<"a">>, <<Tb(<<Kv(k, v)>>)>>), Show(<<Ix(a, k), Ix(Ix(a, k), k)>>)>> : k \in {N(1), S("k"), NilX, True}, v \in {N(6), a, Tb(<<>>)}}

(***************************************************************************)
(* Assignments: what is on the left and what on the right.                 *)
(***************************************************************************)
Targets == {a, Id("g"), Ix(tb, a), Ix(tb, N(1)), Ix(tb, S("k"))}
Sources == {<<N(8)>>, <<b, N(8)>>, <<Bin("+", a, N(1)), a>>, <<Emit(<<b, N(8)>>)>>, <<N(8), Emit(<<>>)>>, <<N(8), b, Emit(<<b>>)>>}
ShowAll == <<Show(<<a, b, Id("g"), Ix(tb, N(1)), Ix(tb, N(2)), Ix(tb, S("k"))>>)>>
Assignments ==
  {<<Loc(<<"a", "b", "t">>, <<N(1), N(2), Tb(<<>>)>>), Asg(<<x, y>>, es)>> \o ShowAll :
     x \in Targets, y \in Targets \cup {b}, es \in Sources}
  \cup {<<Loc(<<"a", "b", "t">>, <<N(1), N(2), List(<<N(3), N(4)>>)>>), Asg(<<Ix(tb, a), tb, x>>, <<N(8), Tb(<<>>), N(9)>>)>> \o ShowAll :
          x \in {a, b, Ix(tb, b)}}
  \cup {<<Loc(<<"a", "b", "t">>, <<N(1), N(2), Tb(<<>>)>>),
          Do(App(Fn(<<"c">>, <<Asg(<<x, c>>, <<c, x>>), Asg(<<Ix(tb, c), tb, y>>, es), Show(<<c>>)>>), <<N(2)>>))>> \o
        <<Show(<<a, b, Id("g")>>), Show(<<Ix(tb, N(1))>>)>> :
          x \in {a, Id("g")}, y \in {c, b}, es \in {<<N(8), List(<<a>>)>>, <<N(8), tb, Emit(<<b>>)>>}}

(***************************************************************************)
(* Closures: the life of the locals they refer to.                         *)
(***************************************************************************)
\* f is told of the function it is given; each body makes one or more.
Keep(x) == Asg(<<Ix(tb, Bin("+", Un("#", tb), N(1)))>>, <<Fn(<<"d">>, <<If1(Id("d"), <<Asg(<<x>>, <<Id("d")>>)>>), Ret(<<x>>)>>)>>)
Stop(n) == If1(Bin("==", a, N(n)), <<Brk>>)
Bodies == {<<Loc(<<"c">>, <<a>>), Keep(c)>>, <<Loc(<<"c">>, <<a>>), Keep(c), Stop(2)>>,
           <<Blk(<<Loc(<<"c">>, <<Bin("+", a, N(5))>>), Keep(c), Stop(2)>>), Loc(<<"b">>, <<a>>), Keep(b)>>,
           <<Loc(<<"c">>, <<a>>), Keep(Id("z")), Stop(2), Keep(c)>>}
Loops(bd) == {Whl(Bin("<", a, N(3)), <<Inc(a)>> \o bd), Rep(<<Inc(a)>> \o bd, Bin(">=", a, N(3))),
              Rep(<<Inc(a)>> \o bd \o <<Loc(<<"e">>, <<a>>), Keep(Id("e"))>>, Bin(">=", Id("e"), N(3))),
              ForN("a", <<N(1), N(3)>>, bd), ForN("a", <<N(3), N(1), N(-1)>>, bd),
              ForN("a", <<S("1"), N(2)>>, <<Inc(a)>> \o bd), ForN("a", <<NilX, N(2)>>, bd),
              ForI(<<"a", "b">>, <<Fn(<<"s", "i">>, <<If1(Bin("<", Id("i"), Id("s")),
                                      <<Ret(<<Bin("+", Id("i"), N(1)), Id("s")>>)>>)>>), N(3), N(0)>>, bd)}
Uses == <<Show(<<Un("#", tb), a>>), Show(<<App(Ix(tb, N(1)), <<N(9)>>), App(Ix(tb, N(1)), <<>>), App(Ix(tb, N(2)), <<>>)>>)>>
Closures ==
  {<<Loc(<<"a", "t", "z">>, <<N(0), Tb(<<>>), N(7)>>), l>> \o Uses : l \in UNION {Loops(bd) : bd \in Bodies}}
  \cup {<<Loc(<<"t">>, <<Tb(<<>>)>>),
          LocF("f", Fn(<<"a", "z">>, <<Keep(a), l, Keep(Id("z")), Ret(<<App(Ix(tb, Un("#", tb)), <<N(6)>>), a>>)>>)),
          Show(<<App(Id("f"), <<N(0), N(1)>>)>>), Loc(<<"a">>, <<N(1)>>)>> \o Uses :
          l \in UNION {Loops(bd) : bd \in {<<Loc(<<"c">>, <<a>>), Keep(c)>>, <<Keep(Id("z")), Stop(2)>>}}}

(***************************************************************************)
(* Calls, results and varargs.                                             *)
(***************************************************************************)
Results == {<<>>, <<a>>, <<a, b>>, <<Emit(<<a, b>>)>>, <<a, Emit(<<b, b>>)>>, <<Dots>>, <<N(5), Dots>>, <<Par(Dots)>>,
            <<Par(Emit(<<a, b>>))>>, <<App(Id("f"), <<b>>)>>, <<App(Id("f"), <<b, Dots>>), a>>}
Params == {<<>>, <<"a">>, <<"a", "b">>}
Wanted == {<<Show(<<App(Id("f"), <<N(1), N(2), N(3)>>)>>)>>,
           <<Show(<<App(Id("f"), <<N(1)>>), App(Id("f"), <<>>)>>)>>,
           <<Loc(<<"c", "d">>, <<App(Id("f"), <<Emit(<<N(1), N(2), N(3)>>)>>)>>), Show(<<c, Id("d")>>)>>,
           <<Loc(<<"t">>, <<Tb(<<It(N(0)), Kv(S("n"), N(9)), It(App(Id("f"), <<N(1), N(2)>>))>>)>>),
             Show(<<Ix(tb, N(1)), Ix(tb, N(2)), Ix(tb, N(3)), Ix(tb, S("n"))>>)>>,
           <<Ret(<<App(Id("f"), <<N(1), N(2)>>)>>)>>}
Ending == If1(Bin("==", a, NilX), <<Ret(<<S("end")>>)>>)
CallPrograms ==
  {<<LocF("f", FnV(ps, <<Ending, Loc(<<"x">>, <<a>>), Asg(<<a>>, <<NilX>>), Ret(rs)>>)), Asg(<<Id("a"), Id("b")>>, <<N(1), NilX>>)>> \o w :
     ps \in Params, rs \in Results, w \in Wanted}
  \cup {<<LocF("f", FnV(ps, <<Show(<<a, b, Ix(Id("arg"), N(1)), Ix(Id("arg"), S("n"))>>), Ret(<<Id("arg")>>)>>))>> \o w :
          ps \in Params, w \in Wanted}
  \cup {<<LocF("f", FnV(ps, <<Show(<<Dots>>), Loc(<<"x", "y">>, <<Dots>>), Show(<<Id("x"), Id("y"), N(1)>>), Ret(<<Dots>>)>>))>> \o w :
          ps \in Params, w \in Wanted}
  \cup {<<LocF("f", Fn(<<"a", "b">>, <<Keep(b), If1(Bin("<", a, N(3)), <<Ret(<<App(Id("f"), <<Bin("+", a, N(1)), x>>)>>)>>), Ret(rs)>>)),
          Asg(<<tb>>, <<Tb(<<>>)>>), Show(<<App(Id("f"), <<N(1), N(5)>>)>>), Show(<<App(Ix(tb, N(1)), <<>>), App(Ix(tb, N(2)), <<>>)>>)>> :
          x \in {a, b}, rs \in {<<a, b>>, <<Emit(<<b>>)>>, <<>>}}
  \cup {<<Loc(<<"o">>, <<Tb(<<Kv(S("v"), N(4))>>)>>), DefF(Ix(Id("o"), S("get")), FnV(<<"a">>, <<Ret(<<Ix(Id("self"), S("v")), a, Dots>>)>>), TRUE),
          DefF(Id("g"), Fn(<<"a">>, <<Ret(<<Meth(Id("o"), "get", <<a, e>>)>>)>>), FALSE),
          Show(<<App(Id("g"), <<N(1)>>), Meth(Id("o"), "get", <<e>>)>>), Do(Meth(e, "get", <<>>))>> :
          e \in {Emit(<<N(2), N(3)>>), Id("o")}}
  \cup {<<Loc(<<"a">>, <<NilX>>), Loc(<<"t">>, <<Tb(<<>>)>>), Show(<<N(1)>>), s, Show(<<N(2)>>)>> :
          s \in {Do(App(a, <<>>)), Do(App(Ix(tb, N(1)), <<a>>)), Do(Meth(a, "m", <<>>)), Asg(<<Ix(a, N(1))>>, <<N(1)>>),
                 Asg(<<Ix(tb, a)>>, <<N(1)>>), ForI(<<"x">>, <<a>>, <<>>), Loc(<<"x">>, <<Ix(a, N(1))>>),
                 Ret(<<App(tb, <<>>)>>), Ret(<<Ix(tb, a)>>), If1(Bin("<", tb, tb), <<>>), Show(<<Bin("+", tb, N(1))>>)}}

(***************************************************************************)
(* Constructors: more items than one store takes.                          *)
(***************************************************************************)
Numbers(n) == [i \in 1 .. n |-> It(N(i))]
AllOf(n) == [i \in 1 .. n |-> Ix(tb, N(i))]
Constructors ==
  {<<Loc(<<"t">>, <<Tb(Numbers(n) \o z)>>), Show(<<Un("#", tb)>> \o AllOf(n + 2))>> :
     n \in 0 .. 7, z \in {<<>>, <<Kv(S("k"), N(0))>>, <<It(Emit(<<N(8), N(9)>>))>>, <<It(Emit(<<N(8), N(9)>>)), It(NilX)>>,
                          <<It(Fn(<<>>, <<>>)), Kv(N(2), S("x")), It(Par(Emit(<<N(8)>>)))>>}}
  \cup {<<Loc(<<"a", "t">>, <<N(1)>>), Asg(<<tb>>, <<List(<<a, x, List(<<y, a, x>>), y>>)>>), Show(AllOf(4)), Show(<<Ix(Ix(tb, N(3)), N(2))>>)>> :
          x \in {S("s"), Emit(<<a, a>>), Bin("and", a, Un("not", a))}, y \in {NilX, Dots, Bin("..", a, a)}}

MCPrograms ==
  Conditions \cup Arithmetics \cup Assignments \cup Closures \cup CallPrograms \cup Constructors

(***************************************************************************)
(* Texts for the lexer: names, numbers and operators; long brackets and    *)
(* comments; strings.                                                      *)
(***************************************************************************)
Over(bytes, n) == UNION {[1 .. k -> bytes] : k \in 0 .. n}
MCTexts ==              \* in bytes: . is 46, - 45, = 61, [ and ] 91 and 93, " 34, \ 92, LF 10, CR 13
  Over({97, 101, 49, 48, 46, 45, 61, 120}, 4) \cup Over({91, 93, 61, 45, 10, 13, 97}, 5)
  \cup Over({34, 92, 57, 110, 10, 13}, 5) \cup Over({100, 111, 32, 126, 61}, 4)
  \cup {<<34, 92>> \o s : s \in Over({57, 34}, 5)}

(***************************************************************************)
(* Functions to dump, and what surrounds the dump in a file.               *)
(***************************************************************************)
K(type, bool, n, s) == [type |-> type, b |-> bool, n |-> n, s |-> s]
NoStr == <<-1>>                                          \* no string
Ks == {<<>>, <<K(0, 0, 0, NoStr), K(1, 1, 0, NoStr)>>, <<K(3, 0, 5, NoStr), K(4, 0, 0, <<97, 0, 98>>)>>, <<K(4, 0, 0, <<>>)>>}
Named(n) == [name |-> <<n>>, start |-> 0, end |-> 2]
Base(k, subs, locals) ==
  [source |-> <<64, 102>>, line |-> 0, last |-> 3, nups |-> 1, numparams |-> 2, vararg |-> 2, stack |-> 5,
   code |-> <<11, 12>>, k |-> k, p |-> subs, lineinfo |-> <<1, 2>>, locvars |-> locals, upvalues |-> <<<<117>>, NoStr>>]
Leaves == {Base(k, <<>>, <<>>) : k \in Ks}
Nested == Base(<<K(4, 0, 0, <<>>)>>, <<>>, <<>>)
MCProtos == Leaves \cup {Base(<<>>, <<f>>, <<Named(120)>>) : f \in Leaves}
            \cup {Base(<<>>, <<Nested, Base(<<>>, <<Nested>>, <<>>)>>, <<>>)}
Line(s) == [i \in DOMAIN s |-> <<[tag |-> "char", v |-> s[i]], 1>>]           \* its bytes
MCFiles == {[before |-> x, after |-> y] : x \in {<<>>, Line(<<35, 33, 10>>)}, y \in {<<>>, Line(<<0, 27>>)}}

(***************************************************************************)
(* Hash functions, where two keys may meet, and orders for table.sort.     *)
(***************************************************************************)
MCHashes == {[k \in Ints \cup Objs |-> IF k \in Ints THEN k ELSE IF k = string THEN 0 ELSE h] : h \in 0 .. 1}
MCOrders == {{<<1, 2>>, <<2, 3>>, <<1, 3>>}, {<<1, 3>>, <<2, 3>>}, {}, Element \X Element,
             {<<1, 2>>, <<2, 3>>, <<3, 1>>}, {<<1, 1>>, <<1, 2>>}}
=============================================================================
