---------------------------- MODULE LpegReference ----------------------------
(***************************************************************************)
(* What a pattern means: parsing expression grammars, with captures.  The  *)
(* abstract specification of LPeg, of patterns as the program writes them: *)
(* an expression e, with e.t its constructor.  A match gives the end of    *)
(* what it took and a forest of captures [kind, label, a, b, sub].         *)
(***************************************************************************)
EXTENDS Integers, Sequences, FiniteSets, SequencesExt

CONSTANTS Char, Functions, Falsy     \* match-time functions: what each one answers

Str(s) == [v |-> "str", s |-> s]
Num(n) == [v |-> "num", n |-> n]
Called(f, args) == [v |-> "call", f |-> f, args |-> args]
TableOf(list, named) == [v |-> "table", list |-> list, named |-> named]

NoMatch == [ok |-> FALSE, i |-> 0, caps |-> <<>>]
Matched(i, caps) == [ok |-> TRUE, i |-> i, caps |-> caps]
Cap(kind, label, a, b, sub) == [kind |-> kind, label |-> label, a |-> a, b |-> b, sub |-> sub]

(***************************************************************************)
(* The values of captures; left is the groups to the left, nearest last,   *)
(* which a back reference looks for.                                       *)
(***************************************************************************)
RECURSIVE Values(_, _, _), ValuesOf(_, _, _), Meaning(_, _, _, _)

Text(subj, c) == Str(SubSeq(subj, c.a + 1, c.b))
Rest(left, caps, k) == left \o SubSeq(caps, 1, k)

\* The values of captures side by side, one sequence.
Values(subj, left, caps) ==
  FoldLeft(LAMBDA x, k : x \o ValuesOf(subj, Rest(left, caps, k - 1), caps[k]),
           <<>>, [k \in 1 .. Len(caps) |-> k])

OrText(subj, c, vs) == IF vs = <<>> THEN <<Text(subj, c)>> ELSE vs

Substituted(subj, left, c) ==
  LET n == Len(c.sub)
      r == FoldLeft(LAMBDA x, k :
             LET d == c.sub[k]
                 vs == ValuesOf(subj, Rest(left, c.sub, k - 1), d)
             IN IF vs = <<>> THEN [s |-> x.s \o SubSeq(subj, x.i + 1, d.a), i |-> d.a]
                ELSE [s |-> x.s \o SubSeq(subj, x.i + 1, d.a) \o vs[1].s, i |-> d.b],
             [s |-> <<>>, i |-> c.a], [k \in 1 .. n |-> k])
  IN Str(r.s \o SubSeq(subj, r.i + 1, c.b))

ValuesOf(subj, left, c) ==
  LET inner == Values(subj, left, c.sub)
      whole == OrText(subj, c, inner)
      named == SelectSeq(c.sub, LAMBDA d : d.kind = "group" /\ d.label # <<>>)
      groups == {k \in DOMAIN left : left[k].kind = "group" /\ left[k].label = c.label}
      at == CHOOSE k \in groups : \A j \in groups : j <= k
  IN CASE c.kind = "simple" -> <<Text(subj, c)>> \o inner
       [] c.kind = "position" -> <<Num(c.a + 1)>>
       [] c.kind \in {"const", "dynamic"} -> c.label
       [] c.kind = "group" -> IF c.label = <<>> THEN whole ELSE <<>>
       [] c.kind = "backref" -> OrText(subj, left[at], Values(subj, SubSeq(left, 1, at - 1), left[at].sub))
       [] c.kind = "table" ->
            <<TableOf(inner, {<<d.label, OrText(subj, d, Values(subj, left, d.sub))[1]>> : d \in ToSet(named)})>>
       [] c.kind = "function" -> <<Called(c.label, whole)>>
       [] c.kind = "fold" ->
            LET first == ValuesOf(subj, left, c.sub[1])
                more == [k \in 1 .. Len(c.sub) - 1 |-> ValuesOf(subj, Rest(left, c.sub, k), c.sub[k + 1])]
            IN <<FoldLeft(LAMBDA x, vs : Called(c.label, <<x>> \o vs), first[1], more)>>
       [] c.kind = "subst" -> <<Substituted(subj, left, c)>>

(***************************************************************************)
(* The meaning of e at position i of the subject, with the rules g.        *)
(***************************************************************************)
Prefix(s, subj, i) == i + Len(s) <= Len(subj) /\ SubSeq(subj, i + 1, i + Len(s)) = s

Meaning(e, i, subj, g) ==
  LET M(x, j) == Meaning(x, j, subj, g)
      Then(r, x) == IF ~r.ok THEN NoMatch
                    ELSE LET q == M(x, r.i) IN IF q.ok THEN Matched(q.i, r.caps \o q.caps) ELSE NoMatch
      Wrap(r, kind, label) == IF r.ok THEN Matched(r.i, <<Cap(kind, label, i, r.i, r.caps)>>) ELSE NoMatch
  IN CASE e.t = "lit" -> IF Prefix(e.s, subj, i) THEN Matched(i + Len(e.s), <<>>) ELSE NoMatch
       [] e.t = "any" -> IF e.n >= 0 THEN (IF i + e.n <= Len(subj) THEN Matched(i + e.n, <<>>) ELSE NoMatch)
                         ELSE (IF i - e.n <= Len(subj) THEN NoMatch ELSE Matched(i, <<>>))
       [] e.t = "set" -> IF i < Len(subj) /\ subj[i + 1] \in e.set THEN Matched(i + 1, <<>>) ELSE NoMatch
       [] e.t = "bool" -> IF e.b THEN Matched(i, <<>>) ELSE NoMatch
       [] e.t = "seq" -> Then(M(e.l, i), e.r)
       [] e.t = "or" -> LET r == M(e.l, i) IN IF r.ok THEN r ELSE M(e.r, i)
       [] e.t = "diff" -> IF M(e.r, i).ok THEN NoMatch ELSE M(e.l, i)
       [] e.t = "not" -> IF M(e.l, i).ok THEN NoMatch ELSE Matched(i, <<>>)
       [] e.t = "and" -> LET r == M(e.l, i) IN IF r.ok THEN Matched(i, r.caps) ELSE NoMatch
       [] e.t = "star" ->
            IF e.n > 0 THEN Then(M(e.l, i), [e EXCEPT !.n = @ - 1])
            ELSE LET r == M(e.l, i)
                     next == IF e.n = 0 THEN e ELSE [e EXCEPT !.n = @ + 1]
                 IN IF ~r.ok THEN Matched(i, <<>>)
                    ELSE IF e.n = -1 THEN r ELSE Then(r, next)
       [] e.t = "cap" -> Wrap(M(e.l, i), e.kind, e.label)
       [] e.t = "position" -> Matched(i, <<Cap("position", <<>>, i, i, <<>>)>>)
       [] e.t = "const" -> Matched(i, <<Cap("const", e.label, i, i, <<>>)>>)
       [] e.t = "backref" -> Matched(i, <<Cap("backref", e.label, i, i, <<>>)>>)
       [] e.t = "cmt" ->
            LET r == M(e.l, i)
                q == Functions[e.label[1]][r.i - i]
            IN IF ~r.ok \/ q = Falsy THEN NoMatch
               ELSE IF q = <<>> THEN Matched(r.i, <<>>)
               ELSE Matched(r.i, <<Cap("dynamic", q, i, r.i, <<>>)>>)
       [] e.t = "grammar" ->
            LET rule == [k \in {e.rules[j][1] : j \in DOMAIN e.rules} |->
                           e.rules[CHOOSE j \in DOMAIN e.rules : e.rules[j][1] = k][2]]
            IN Meaning(e.rules[1][2], i, subj, rule)
       [] e.t = "var" -> M(g[e.name], i)
=============================================================================
