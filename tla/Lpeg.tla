-------------------------------- MODULE Lpeg ---------------------------------
(***************************************************************************)
(* LPeg's matching machine (match in lpeg.c) running the code of a         *)
(* pattern on a subject, and the values of the captures it leaves.         *)
(*                                                                         *)
(* expr is the pattern as the program wrote it, subject the characters.    *)
(* m is the machine: the next instruction, the position, the stack of      *)
(* calls and choices, the list of captures.  A capture of the list has its *)
(* position, kind and index, siz: 0 when open, else its length plus 1, and *)
(* v, a value that a match-time function returned.                         *)
(***************************************************************************)
EXTENDS LpegCode

CONSTANTS Patterns, Subjects, Functions, Falsy

VARIABLES expr, subject, m

vars == <<expr, subject, m>>

R == INSTANCE LpegReference

(***************************************************************************)
(* Building: the operators of the pattern library.                         *)
(***************************************************************************)
RECURSIVE Build(_)

Build(e) ==
  LET subs == CASE e.t \in {"seq", "or", "diff"} -> {Build(e.l), Build(e.r)}
                [] e.t \in {"not", "and", "star", "cap", "cmt"} -> {Build(e.l)}
                [] e.t = "grammar" -> {Build(e.rules[k][2]) : k \in DOMAIN e.rules}
                [] OTHER -> {}
  IN IF \E p \in subs : p.err THEN Bad
     ELSE CASE e.t = "lit" -> Literal(e.s)
            [] e.t = "any" -> Number(e.n)
            [] e.t = "set" -> Pat(<<SetInst(e.set)>>, <<>>)
            [] e.t = "bool" -> Boolean(e.b)
            [] e.t = "seq" -> Concat(Build(e.l), Build(e.r))
            [] e.t = "or" -> Union(Build(e.l), Build(e.r))
            [] e.t = "diff" -> Diff(Build(e.l), Build(e.r))
            [] e.t = "not" -> Unm(Build(e.l))
            [] e.t = "and" -> And(Build(e.l))
            [] e.t = "star" -> IF e.n >= 0 THEN AtLeast(Build(e.l), e.n) ELSE AtMost(Build(e.l), -e.n)
            [] e.t = "cap" -> Capture(e.kind, Build(e.l), e.label)
            [] e.t = "cmt" -> MatchTime(Build(e.l), e.label[1])
            [] e.t = "position" -> Position
            [] e.t = "const" -> Const(e.label)
            [] e.t = "backref" -> BackRef(e.label[1])
            [] e.t = "var" -> NonTerminal(e.name)
            [] e.t = "grammar" ->
                 Grammar([k \in DOMAIN e.rules |-> <<e.rules[k][1], Build(e.rules[k][2])>>])

(***************************************************************************)
(* The values of a list of captures from the index k on: pushcapture and   *)
(* what it calls give the values and the index that follows.               *)
(***************************************************************************)
Closed(c) == c.kind = "close"
Full(c) == c.siz # 0

\* The index of the close entry of the open capture at k, and of the open
\* entry of the close entry at k.
Open(c) == ~Closed(c) /\ ~Full(c)
Balance(caps, i, j) ==
  Cardinality({k \in i .. j : Open(caps[k])}) - Cardinality({k \in i .. j : Closed(caps[k])})
Closing(caps, k) == Min({j \in k + 1 .. Len(caps) : Balance(caps, k, j) = 0})
FindOpen(caps, k) == Max({j \in 1 .. k - 1 : Open(caps[j]) /\ Balance(caps, j, k) = 0})
NextCap(caps, k) == IF Full(caps[k]) THEN k + 1 ELSE Closing(caps, k) + 1
CloseAddr(c) == c.s + c.siz - 1

RECURSIVE Push(_, _, _), Inside(_, _, _), FindBack(_, _, _, _), Subst(_, _, _, _, _), Fold(_, _, _, _, _)

Piece(i, j) == R!Str(SubSeq(subject, i + 1, j))
Then(vs, r) == [vs |-> vs \o r.vs, next |-> r.next]

\* The values up to the close entry; next is its index.
Inside(caps, env, k) ==
  IF Closed(caps[k]) THEN [vs |-> <<>>, next |-> k]
  ELSE LET r == Push(caps, env, k) IN Then(r.vs, Inside(caps, env, r.next))

PushAll(caps, env, k, addextra) ==          \* pushallvalues
  LET c == caps[k]
      r == Inside(caps, env, k + 1)
      whole == <<Piece(c.s, caps[r.next].s)>>
  IN IF Full(c) THEN [vs |-> <<Piece(c.s, CloseAddr(c))>>, next |-> k + 1]
     ELSE [vs |-> IF addextra THEN whole \o r.vs ELSE IF r.vs = <<>> THEN whole ELSE r.vs,
           next |-> r.next + 1]

\* findback: the nearest complete group of the name, not inside another.
FindBack(caps, env, name, k) ==
  LET j == k - 1
      o == IF Closed(caps[j]) THEN FindOpen(caps, j) ELSE j
  IN IF o = j /\ ~Full(caps[j]) THEN FindBack(caps, env, name, j)
     ELSE IF caps[o].kind = "group" /\ caps[o].idx # 0 /\ env[caps[o].idx] = name THEN o
     ELSE FindBack(caps, env, name, o)

Subst(caps, env, k, cur, s) ==
  LET c == caps[k]
      r == Push(caps, env, k)
      text == s \o SubSeq(subject, cur + 1, c.s)
  IN IF Closed(c) THEN [vs |-> <<R!Str(text)>>, next |-> k + 1]
     ELSE IF r.vs = <<>> THEN Subst(caps, env, r.next, c.s, text)
     ELSE Subst(caps, env, r.next, CloseAddr(caps[r.next - 1]), text \o r.vs[1].s)

Fold(caps, env, f, k, acc) ==
  LET r == Push(caps, env, k)
  IN IF Closed(caps[k]) THEN [vs |-> <<acc>>, next |-> k + 1]
     ELSE Fold(caps, env, f, r.next, R!Called(f, <<acc>> \o r.vs))

RECURSIVE Table(_, _, _, _)
Table(caps, env, k, t) ==                    \* tablecap
  LET c == caps[k]
      r == PushAll(caps, env, k, FALSE)
      q == Push(caps, env, k)
  IN IF Closed(c) THEN [vs |-> <<t>>, next |-> k + 1]
     ELSE IF c.kind = "group" /\ c.idx # 0
     THEN Table(caps, env, r.next, [t EXCEPT !.named = @ \cup {<<<<env[c.idx]>>, r.vs[1]>>}])
     ELSE Table(caps, env, q.next, [t EXCEPT !.list = @ \o q.vs])

Push(caps, env, k) ==
  LET c == caps[k]
      One(v) == [vs |-> <<v>>, next |-> k + 1]
      label == IF c.idx = 0 THEN <<>> ELSE <<env[c.idx]>>
      empty == R!TableOf(<<>>, {})
  IN CASE c.kind = "position" -> One(R!Num(c.s + 1))
       [] c.kind = "const" -> One(env[c.idx])
       [] c.kind = "simple" -> PushAll(caps, env, k, TRUE)
       [] c.kind = "runtime" ->
            LET e == Min({j \in k .. Len(caps) : Closed(caps[j])})
            IN [vs |-> [j \in 1 .. e - k |-> caps[k + j - 1].v[1]], next |-> e + 1]
       [] c.kind = "subst" -> IF Full(c) THEN One(Piece(c.s, CloseAddr(c)))
                              ELSE Subst(caps, env, k + 1, c.s, <<>>)
       [] c.kind = "group" -> IF c.idx = 0 THEN PushAll(caps, env, k, FALSE)
                              ELSE [vs |-> <<>>, next |-> NextCap(caps, k)]
       [] c.kind = "backref" ->
            [vs |-> PushAll(caps, env, FindBack(caps, env, label[1], k), FALSE).vs, next |-> k + 1]
       [] c.kind = "table" -> IF Full(c) THEN One(empty) ELSE Table(caps, env, k + 1, empty)
       [] c.kind = "function" ->
            LET r == PushAll(caps, env, k, FALSE)
            IN [vs |-> <<R!Called(label, r.vs)>>, next |-> r.next]
       [] c.kind = "fold" ->
            LET r == Push(caps, env, k + 1) IN Fold(caps, env, label, r.next, r.vs[1])

EndOfList == [kind |-> "close", s |-> 0, siz |-> 1, idx |-> 0, v |-> <<>>]
GetCaptures(caps, env) == Inside(Append(caps, EndOfList), env, 1).vs

(***************************************************************************)
(* The machine.                                                            *)
(***************************************************************************)
Code == m.pat.code
I == At(Code, m.pc)
Left == Len(subject) - m.s
Goto(x) == [x EXCEPT !.pc = @ + I.to]
Advance(x) == [x EXCEPT !.pc = @ + 1]
PushEntry(e) == [m EXCEPT !.stack = Append(@, e)]
Popped == [m EXCEPT !.stack = Front(@)]
Running == m.status = "run"

\* fail: calls are dropped, the last choice is taken up.
Fail(x) ==
  LET choices == {k \in DOMAIN x.stack : ~x.stack[k].call}
      e == x.stack[Max(choices)]
  IN IF choices = {} THEN [x EXCEPT !.status = "no match", !.stack = <<>>]
     ELSE [x EXCEPT !.pc = e.p, !.s = e.s, !.caps = SubSeq(@, 1, e.caps),
                    !.stack = SubSeq(@, 1, Max(choices) - 1)]

CondFailed == IF I.to # 0 THEN Goto(m) ELSE Fail(m)
Entry(p, call, s) == [p |-> p, call |-> call, s |-> s, caps |-> Len(m.caps)]

Match ==                     \* IAny, ISet, ISpan
  /\ Running /\ I.op \in {"Any", "Set", "Span"}
  /\ LET run == {k \in 0 .. Left : \A j \in 1 .. k : subject[m.s + j] \in I.set}
     IN m' = CASE I.op = "Span" -> Advance([m EXCEPT !.s = @ + Max(run)])
               [] I.op = "Any" -> IF I.n <= Left THEN Advance([m EXCEPT !.s = @ + I.n]) ELSE CondFailed
               [] I.op = "Set" -> IF 1 \in run THEN Advance([m EXCEPT !.s = @ + 1]) ELSE CondFailed
  /\ UNCHANGED <<expr, subject>>

Branch ==                    \* IChoice, ICall, IJmp, IRet
  /\ Running /\ I.op \in {"Choice", "Call", "Jmp", "Ret"}
  /\ m' = CASE I.op = "Jmp" -> Goto(m)
            [] I.op = "Ret" -> [Popped EXCEPT !.pc = Last(m.stack).p]
            [] I.op \in {"Choice", "Call"} /\ Len(m.stack) + 1 >= MaxBack -> [m EXCEPT !.status = "error"]
            [] I.op = "Choice" /\ Len(m.stack) + 1 < MaxBack ->
                 Advance(PushEntry(Entry(m.pc + I.to, FALSE, m.s - I.n)))
            [] I.op = "Call" /\ Len(m.stack) + 1 < MaxBack -> Goto(PushEntry(Entry(m.pc + 1, TRUE, 0)))
  /\ UNCHANGED <<expr, subject>>

Commit ==                    \* ICommit, IPartialCommit, IBackCommit
  /\ Running /\ I.op \in {"Commit", "PartialCommit", "BackCommit"}
  /\ m' = CASE I.op = "Commit" -> Goto(Popped)
            [] I.op = "PartialCommit" ->
                 Goto([m EXCEPT !.stack[Len(m.stack)] = [@ EXCEPT !.s = m.s, !.caps = Len(m.caps)]])
            [] I.op = "BackCommit" -> Goto([Popped EXCEPT !.s = Last(m.stack).s])
  /\ UNCHANGED <<expr, subject>>

Failed ==                    \* IFail, IFailTwice
  /\ Running /\ I.op \in {"Fail", "FailTwice"}
  /\ m' = Fail(IF I.op = "Fail" THEN m ELSE Popped)
  /\ UNCHANGED <<expr, subject>>

AddCap(x, siz) ==
  [x EXCEPT !.caps = Append(@, [kind |-> I.kind, s |-> m.s - I.off, siz |-> siz, idx |-> I.idx, v |-> <<>>])]

Captured ==                  \* the captures; a short one is closed in place
  /\ Running /\ I.op \in Captures
  /\ LET last == Last(m.caps)
         size == m.s - I.off - last.s
     IN m' = Advance(
          CASE I.op = "CloseCapture" /\ last.siz = 0 /\ size < UMax ->
                 [m EXCEPT !.caps[Len(m.caps)].siz = size + 1]
            [] I.op = "CloseCapture" /\ ~(last.siz = 0 /\ size < UMax) -> AddCap(m, 1)
            [] I.op = "EmptyCapture" -> AddCap(m, 1)
            [] I.op = "OpenCapture" -> AddCap(m, 0)
            [] I.op = "FullCapture" -> AddCap(m, I.off + 1))
  /\ UNCHANGED <<expr, subject>>

\* ICloseRunTime: the function is called with the values so far, and what it
\* returns takes the place of the captures inside.
RunTime ==
  /\ Running /\ I.op = "CloseRunTime"
  /\ LET closed == Append(m.caps, [EndOfList EXCEPT !.s = m.s])
         o == FindOpen(closed, Len(closed))
         f == m.pat.env[m.caps[o].idx]
         q == Functions[f][m.s - m.caps[o].s]
         before == SubSeq(m.caps, 1, o - 1)
         entry(v) == [kind |-> "runtime", s |-> m.s, siz |-> 1, idx |-> 0, v |-> <<v>>]
         news == IF q = <<>> THEN <<>>
                 ELSE <<[m.caps[o] EXCEPT !.v = <<q[1]>>]>> \o [k \in 1 .. Len(q) - 1 |-> entry(q[k + 1])]
                        \o <<[EndOfList EXCEPT !.s = m.s]>>
     IN m' = IF q = Falsy THEN Fail(m) ELSE Advance([m EXCEPT !.caps = before \o news])
  /\ UNCHANGED <<expr, subject>>

End ==
  /\ Running /\ I.op = "End"
  /\ m' = [m EXCEPT !.status = "match"]
  /\ UNCHANGED <<expr, subject>>

Init ==                      \* matchl
  /\ expr \in Patterns /\ subject \in Subjects
  /\ m = [pat |-> Build(expr), pc |-> 1, s |-> 0, stack |-> <<>>, caps |-> <<>>, status |-> "run"]
  /\ ~m.pat.err

Next == Match \/ Branch \/ Commit \/ Failed \/ Captured \/ RunTime \/ End

Spec == Init /\ [][Next]_vars /\ WF_vars(Next)

(***************************************************************************)
(* Properties.                                                             *)
(***************************************************************************)
\* Whatever the optimizer made of the pattern, the machine matches what the
\* grammar means, up to the same place and with the same captured values.
MatchesGrammar ==
  ~Running =>
    LET r == R!Meaning(expr, 0, subject, <<>>)
    IN IF r.ok THEN /\ m.status = "match" /\ m.s = r.i
                    /\ GetCaptures(m.caps, m.pat.env) = R!Values(subject, <<>>, r.caps)
       ELSE m.status = "no match"

\* The assertions of match: a return finds its call and a commit its choice
\* on top, and a match leaves the stack empty.
StackInStep ==
  /\ Running /\ I.op = "Ret" => m.stack # <<>> /\ Last(m.stack).call
  /\ Running /\ I.op \in {"Commit", "PartialCommit", "BackCommit", "FailTwice"} =>
       m.stack # <<>> /\ ~Last(m.stack).call
  /\ m.status = "match" => m.stack = <<>>

\* A pattern the verifier lets pass ends on every subject.
Ends == <>(m.status \in {"match", "no match"})
=============================================================================
