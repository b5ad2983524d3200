------------------------------ MODULE LpegCode -------------------------------
(***************************************************************************)
(* The code LPeg 0.9 (lpeg.c) builds for patterns: an operator for each    *)
(* constructor, with the optimizations it makes, and the verifier of loops *)
(* and grammars.                                                           *)
(*                                                                         *)
(* A pattern is [code, env, err]: its instructions without the final IEnd, *)
(* the values they refer to (its environment), and whether building it     *)
(* raised an error.  An instruction is                                     *)
(*   [op, to, n, set, kind, off, idx]                                      *)
(* with the jump of a jump or a test, the count of IAny or of what IChoice *)
(* gives back, the characters of ISet and ISpan, and the kind, the offset  *)
(* and the index of a capture.  Every instruction has size 1, and IChar is *)
(* the ISet of one character.                                              *)
(***************************************************************************)
EXTENDS Integers, Sequences, FiniteSets, SequencesExt, FiniteSetsExt

CONSTANTS Char,
          UMax,       \* UCHAR_MAX: most characters of one IAny
          MaxOff,     \* MAXOFF: farthest a capture is moved
          MaxBack     \* MAXBACK: levels of calls and choices

(***************************************************************************)
(* Instructions.                                                           *)
(***************************************************************************)
Inst(op, to) == [op |-> op, to |-> to, n |-> 0, set |-> {}, kind |-> "none", off |-> 0, idx |-> 0]
CapInst(op, idx, kind, off) == [Inst(op, 0) EXCEPT !.idx = idx, !.kind = kind, !.off = off]
SetInst(S) == [Inst("Set", 0) EXCEPT !.set = S]
AnyInst(n) == [Inst("Any", 0) EXCEPT !.n = n]
ChoiceInst(to, n) == [Inst("Choice", to) EXCEPT !.n = n]

At(c, i) == IF i \in DOMAIN c THEN c[i] ELSE Inst("End", 0)

Checks == {"Any", "Set"}
Captures == {"FullCapture", "EmptyCapture", "OpenCapture", "CloseCapture"}
IsJmp(x) == x.op \in {"Choice", "Jmp", "Call", "Commit", "PartialCommit", "BackCommit"}
IsCheck(x) == x.op \in Checks /\ x.to = 0
IsTest(x) == x.op \in Checks /\ x.to # 0
IsNoFail(x) == x.op \in Captures \cup {"Span", "Jmp"}
IsMovable(x) == x.op \in Captures \ {"FullCapture"} /\ x.off < MaxOff
Step(x) == IF x.op = "Any" THEN x.n ELSE 1
Test(c, to) == [c EXCEPT ![1].to = to]                   \* check2test

(***************************************************************************)
(* Patterns and their environments.                                        *)
(***************************************************************************)
Pat(code, env) == [code |-> code, env |-> env, err |-> FALSE]
Bad == [code |-> <<Inst("Fail", 0)>>, env |-> <<>>, err |-> TRUE]

\* jointable: the values of env1 follow those of env, unless one environment
\* serves both.
Shared(env, env1) == env1 = <<>> \/ env1 = env
Join(env, env1) == IF Shared(env, env1) THEN env ELSE env \o env1
Corr(env, env1) == IF Shared(env, env1) THEN 0 ELSE Len(env)

Corrected(c, n) == [i \in DOMAIN c |-> IF c[i].idx = 0 THEN c[i] ELSE [c[i] EXCEPT !.idx = @ + n]]

AddPatt(p, q) == Pat(p.code \o Corrected(q.code, Corr(p.env, q.env)), Join(p.env, q.env))
AddCode(p, c) == [p EXCEPT !.code = @ \o c]
New == Pat(<<>>, <<>>)
Times(p, q, n) == FoldLeft(LAMBDA x, i : AddPatt(x, q), p, [i \in 1 .. n |-> i])

(***************************************************************************)
(* Optimizations.                                                          *)
(***************************************************************************)
\* skipchecks: how many checks from i on a capture can be moved across.
SkipChecks(c, i, up) ==
  LET Steps(k) == FoldLeft(LAMBDA x, y : x + Step(y), 0, SubSeq(c, i, i + k - 1))
  IN Max({k \in 0 .. Len(c) - i + 1 :
            (\A j \in i .. i + k - 1 : IsCheck(c[j])) /\ (k = 0 \/ Steps(k) <= MaxOff - up)})

RECURSIVE OptCaps(_, _, _), Target(_, _)

\* Captures move up across the checks that follow them, unless a jump comes
\* to what follows limit.
OptCaps(c, i, limit) ==
  IF i > Len(c) THEN c
  ELSE IF IsJmp(c[i]) /\ i + c[i].to >= limit THEN OptCaps(c, i + 1, i + c[i].to + 1)
  ELSE IF ~(i >= limit /\ IsMovable(c[i]) /\ IsCheck(At(c, i + 1))) THEN OptCaps(c, i + 1, limit)
  ELSE LET start == Min({j \in limit .. i : \A m \in j .. i : IsMovable(c[m])})
           k == SkipChecks(c, i + 1, Max({c[m].off : m \in start .. i}))
           n == FoldLeft(LAMBDA x, y : x + Step(y), 0, SubSeq(c, i + 1, i + k))
           moved == [j \in 1 .. i - start + 1 |-> [c[start + j - 1] EXCEPT !.off = @ + n]]
       IN IF k = 0 THEN OptCaps(c, i + 1, limit)
          ELSE OptCaps(SubSeq(c, 1, start - 1) \o SubSeq(c, i + 1, i + k) \o moved
                         \o SubSeq(c, i + k + 1, Len(c)), i + k + 1, limit)

OptimizeCaptures(p) == [p EXCEPT !.code = OptCaps(@, 1, 1)]

Target(c, i) == IF At(c, i).op = "Jmp" THEN Target(c, i + c[i].to) ELSE i
OptimizeJumps(p) ==
  LET c == p.code
  IN [p EXCEPT !.code = [i \in DOMAIN c |->
        IF IsJmp(c[i]) THEN [c[i] EXCEPT !.to = Target(c, i + @) - i] ELSE c[i]]]

\* A choice on a check is made after the check, which jumps when it fails.
OptimizeChoice(c) ==
  IF ~IsCheck(At(c, 2)) THEN c
  ELSE <<[c[2] EXCEPT !.to = c[1].to], ChoiceInst(c[1].to - 1, Step(c[2]))>> \o SubSeq(c, 3, Len(c))

(***************************************************************************)
(* What is known of a pattern.                                             *)
(***************************************************************************)
IsHeadFail(c) == c # <<>> /\ IsCheck(c[1]) /\ \A i \in 2 .. Len(c) : IsNoFail(c[i])
IsFail(p) == p.code # <<>> /\ p.code[1].op = "Fail"
IsSucc(p) == p.code = <<>>
IsAny(p) == Len(p.code) = 1 /\ p.code[1].op = "Any"

ToCharset(c) ==
  IF c # <<>> /\ IsCheck(c[1])
  THEN [tag |-> IF Len(c) = 1 /\ Step(c[1]) = 1 THEN "charset" ELSE "starts",
        cs |-> IF c[1].op = "Set" THEN c[1].set ELSE Char]
  ELSE [tag |-> "none", cs |-> {}]

IsCharset(c) == ToCharset(c).tag = "charset"
Exclusive(s1, s2) == s1.tag # "none" /\ s2.tag # "none" /\ s1.cs \cap s2.cs = {}

(***************************************************************************)
(* Constructors.                                                           *)
(***************************************************************************)
RECURSIVE Anys(_), SeparateParts(_, _, _)

Anys(n) == IF n > UMax THEN <<AnyInst(UMax)>> \o Anys(n - UMax) ELSE <<AnyInst(n)>>

Number(n) ==                    \* getpatt of a number
  IF n = 0 THEN New
  ELSE IF n > 0 THEN Pat(Anys(n), <<>>)
  ELSE IF -n <= UMax THEN Pat(<<[AnyInst(-n) EXCEPT !.to = 2], Inst("Fail", 0)>>, <<>>)
  ELSE LET rest == Anys(-n - UMax)
       IN Pat(<<[AnyInst(UMax) EXCEPT !.to = Len(rest) + 3], ChoiceInst(Len(rest) + 2, UMax)>>
                \o rest \o <<Inst("FailTwice", 0)>>, <<>>)

Literal(s) == Pat([i \in DOMAIN s |-> SetInst({s[i]})], <<>>)
Boolean(b) == IF b THEN New ELSE Pat(<<Inst("Fail", 0)>>, <<>>)

Concat(p1, p2) ==
  IF IsFail(p1) \/ IsSucc(p2) THEN p1
  ELSE IF IsFail(p2) \/ IsSucc(p1) THEN p2
  ELSE IF IsAny(p1) /\ IsAny(p2) THEN Pat(Anys(p1.code[1].n + p2.code[1].n), <<>>)
  ELSE OptimizeCaptures(AddPatt(AddPatt(New, p1), p2))

Diff(p1, p2) ==
  LET l2 == Len(p2.code)
      q == AddPatt(New, p2)
  IN IF IsCharset(p1.code) /\ IsCharset(p2.code)
     THEN Pat(<<SetInst(ToCharset(p1.code).cs \ ToCharset(p2.code).cs)>>, <<>>)
     ELSE IF IsHeadFail(p2.code)
     THEN AddPatt(AddCode([q EXCEPT !.code = Test(@, l2 + 1)], <<Inst("Fail", 0)>>), p1)
     ELSE LET r == AddPatt(AddCode(AddPatt(Pat(<<Inst("Choice", l2 + 2)>>, <<>>), p2),
                                   <<Inst("FailTwice", 0)>>), p1)
          IN [r EXCEPT !.code = OptimizeChoice(@)]

Unm(p) == IF IsFail(p) THEN New ELSE IF IsSucc(p) THEN Boolean(FALSE) ELSE Diff(New, p)

And(p) ==
  LET l1 == Len(p.code)
  IN IF IsFail(p) \/ IsSucc(p) THEN p
     ELSE IF IsCharset(p.code)
     THEN Pat(<<[SetInst(Char \ ToCharset(p.code).cs) EXCEPT !.to = 2], Inst("Fail", 0)>>, <<>>)
     ELSE AddCode(AddPatt(Pat(<<Inst("Choice", l1 + 2)>>, <<>>), p),
                  <<Inst("BackCommit", 2), Inst("Fail", 0)>>)

\* firstpart: the length of the first alternative of a union, or 0.
FirstPart(c) ==
  LET e == c[1].to
      Ends(ops) == e \in DOMAIN c /\ c[e].op \in ops /\ e - 1 + c[e].to = Len(c)
  IN IF (IsTest(c[1]) /\ Ends({"Jmp", "Commit"})) \/ (c[1].op = "Choice" /\ Ends({"Commit"}))
     THEN e ELSE 0

Interfere(c, st) ==
  /\ \E i \in DOMAIN c : ~IsNoFail(c[i])
  /\ st.tag # "none" /\ c[1].op = "Set" => c[1].set \cap st.cs # {}

\* The code c of an alternative or more, then that of the pattern p2, of which
\* st is known.
BasicUnion(c, c2, st) ==
  LET st1 == ToCharset(c)
      l1 == Len(c)  l2 == Len(c2)
  IN IF st1.tag = "charset" /\ st.tag = "charset" THEN <<SetInst(st1.cs \cup st.cs)>>
     ELSE IF Exclusive(st1, st) \/ IsHeadFail(c) THEN Test(c, l1 + 1) \o <<Inst("Jmp", l2 + 1)>> \o c2
     ELSE OptimizeChoice(<<Inst("Choice", l1 + 2)>> \o c \o <<Inst("Commit", l2 + 1)>> \o c2)

KeepOptimized(c, st) == FALSE          \* mutant: a test stays a test whatever follows
MustChoose(c, st) == c[Len(c)].op # "Commit" /\ Interfere(c, st)

SeparateParts(c, c2, st) ==
  LET sp == IF c = <<>> THEN 0 ELSE FirstPart(c)
      first == SubSeq(c, 1, sp)
      rest == SeparateParts(SubSeq(c, sp + 1, Len(c)), c2, st)
  IN IF sp = 0 THEN BasicUnion(c, c2, st)
     ELSE IF ~MustChoose(first, st) THEN [first EXCEPT ![sp].to = Len(rest) + 1] \o rest
     ELSE <<[c[1] EXCEPT !.to = @ + 1], ChoiceInst(sp, 1)>> \o SubSeq(c, 2, sp - 1)
            \o <<Inst("Commit", Len(rest) + 1)>> \o rest

Union(p1, p2) ==
  IF IsFail(p1) THEN p2
  ELSE IF IsFail(p2) \/ IsSucc(p1) THEN p1
  ELSE Pat(SeparateParts(p1.code, Corrected(p2.code, Corr(p1.env, p2.env)), ToCharset(p2.code)),
           Join(p1.env, p2.env))

(***************************************************************************)
(* The verifier runs a pattern as if every check failed: the result is     *)
(* "empty" when it can succeed all the same.  names is the environment and *)
(* the positions of the rules of a grammar, or <<>> before there is one.   *)
(***************************************************************************)
RECURSIVE Verify(_, _, _, _, _)

Verify(c, i, e, back, names) ==
  LET x == c[i]
      Jump == Verify(c, i + x.to, e, back, names)
      Pop == SubSeq(back, 1, Len(back) - 1)
      Push(b) == Append(back, b)
      choices == {k \in DOMAIN back : ~back[k].call}
      Fail == IF choices = {} THEN "consumes"
              ELSE Verify(c, back[Max(choices)].p, e, SubSeq(back, 1, Max(choices) - 1), names)
      full == Len(back) >= MaxBack
  IN CASE i = e -> "empty"
       [] i # e /\ x.op = "Ret" -> Verify(c, Last(back).p, e, Pop, names)
       [] i # e /\ x.op = "Choice" ->
            IF full THEN "error" ELSE Verify(c, i + 1, e, Push([p |-> i + x.to, call |-> FALSE]), names)
       [] i # e /\ x.op = "Call" ->
            IF full THEN "error" ELSE Verify(c, i + x.to, e, Push([p |-> i + 1, call |-> TRUE]), names)
       [] i # e /\ x.op = "OpenCall" ->
            IF names = <<>> THEN Fail
            ELSE IF full \/ \E k \in DOMAIN back : back[k] = [p |-> i + 1, call |-> TRUE] THEN "error"
            ELSE IF names.env[x.idx] \notin DOMAIN names.pos THEN "error"
            ELSE Verify(c, names.pos[names.env[x.idx]], e, Push([p |-> i + 1, call |-> TRUE]), names)
       [] i # e /\ x.op \in {"BackCommit", "Commit"} -> Verify(c, i + x.to, e, Pop, names)
       [] i # e /\ x.op = "PartialCommit" -> IF x.to > 0 THEN Jump ELSE Verify(c, i + 1, e, Pop, names)
       [] i # e /\ x.op \in Checks -> IF x.to = 0 THEN Fail ELSE Jump
       [] i # e /\ x.op = "Jmp" -> Jump
       [] i # e /\ x.op \in {"FailTwice", "CloseRunTime"} -> Fail
       [] i # e /\ x.op = "Fail" ->
            IF i > 1 /\ c[i - 1].op = "BackCommit" THEN Verify(c, i + 1, e, back, names) ELSE Fail
       [] OTHER -> Verify(c, i + 1, e, back, names)

(***************************************************************************)
(* Repetition, captures, grammars.                                         *)
(***************************************************************************)
AtLeast(p, n) ==                \* star_l with n >= 0
  LET l1 == Len(p.code)
      es == Times(New, p, n)
      r == IF IsHeadFail(p.code)
           THEN AddCode(AddPatt(es, [p EXCEPT !.code = Test(@, l1 + 1)]), <<Inst("Jmp", -l1)>>)
           ELSE AddCode(AddPatt(AddCode(es, <<Inst("Choice", l1 + 2)>>), p), <<Inst("PartialCommit", -l1)>>)
  IN IF IsCharset(p.code)
     THEN AddCode(es, <<[Inst("Span", 0) EXCEPT !.set = ToCharset(p.code).cs]>>)
     ELSE IF ~IsHeadFail(p.code) /\ Verify(p.code, 1, l1 + 1, <<>>, <<>>) # "consumes" THEN Bad
     ELSE OptimizeJumps(OptimizeCaptures(r))

AllPartial(c) == c               \* mutant: the last commit is not corrected
LastCommit(c) == [c EXCEPT ![Len(c)] = Inst("Commit", 1)]

AtMost(p, n) ==                 \* star_l with -n
  LET l1 == Len(p.code)
  IN IF IsHeadFail(p.code)
     THEN FoldLeft(LAMBDA x, i : AddPatt(x, [p EXCEPT !.code = Test(@, (n - i + 1) * l1)]),
                   New, [i \in 1 .. n |-> i])
     ELSE LET r == FoldLeft(LAMBDA x, i : AddCode(AddPatt(x, p), <<Inst("PartialCommit", 1)>>),
                            Pat(<<Inst("Choice", n * (l1 + 1) + 1)>>, <<>>), [i \in 1 .. n |-> i])
          IN [r EXCEPT !.code = OptimizeChoice(LastCommit(@))]

\* capture_aux; label is <<>> or the value the capture refers to.
Capture(kind, p, label) ==
  LET l1 == Len(p.code)
      n == FoldLeft(LAMBDA x, y : x + Step(y), 0, p.code)
      Labelled(c) == Pat(c, label)
      idx == Len(label)
  IN IF SkipChecks(p.code, 1, 0) = l1
     THEN AddCode(AddPatt(Labelled(<<>>), p), <<CapInst("FullCapture", idx, kind, n)>>)
     ELSE OptimizeCaptures(AddCode(AddPatt(Labelled(<<CapInst("OpenCapture", idx, kind, 0)>>), p),
                                   <<CapInst("CloseCapture", 0, "close", 0)>>))

MatchTime(p, f) ==
  OptimizeCaptures(AddCode(AddPatt(Pat(<<CapInst("OpenCapture", 1, "runtime", 0)>>, <<f>>), p),
                           <<CapInst("CloseRunTime", 0, "close", 0)>>))

Position == Pat(<<CapInst("EmptyCapture", 0, "position", 0)>>, <<>>)
BackRef(name) == Pat(<<CapInst("EmptyCapture", 1, "backref", 0)>>, <<name>>)
Const(vals) ==                  \* capconst_l
  LET c == [i \in DOMAIN vals |-> CapInst("EmptyCapture", i, "const", 0)]
  IN Pat(IF Len(vals) <= 1 THEN c
         ELSE <<CapInst("OpenCapture", 0, "group", 0)>> \o c \o <<CapInst("CloseCapture", 0, "close", 0)>>,
         vals)
NonTerminal(name) == Pat(<<[Inst("OpenCall", 0) EXCEPT !.idx = 1]>>, <<name>>)

LoopsUnchecked(c, from, to, names) == Verify(c, from, to, <<>>, names) # "error"    \* mutant

\* checkrule: no loop of the rule may run without consuming, no path comes
\* back to an open call without consuming.
CheckRule(c, from, to, names) ==
  LET Loops == {i \in from .. to : c[i].op = "PartialCommit" /\ c[i].to < 0}
      Opens(i) == {k \in from .. i : c[k].op = "OpenCall"}
  IN /\ \A i \in Loops : Opens(i) # {} /\ i + c[i].to <= Max(Opens(i))
          => Verify(c, i + c[i].to, i, <<>>, names) = "consumes"
     /\ Verify(c, from, to, <<>>, names) # "error"

\* fix_l: rules is a sequence of <<name, pattern>>, the first the initial one.
Grammar(rules) ==
  LET Place(k) == 3 + FoldLeft(LAMBDA x, r : x + Len(r[2].code) + 1, 0, SubSeq(rules, 1, k - 1))
      total == Place(Len(rules) + 1) - 1
      pos == [nm \in {rules[k][1] : k \in DOMAIN rules} |->
                Place(CHOOSE k \in DOMAIN rules : rules[k][1] = nm)]
      p == FoldLeft(LAMBDA x, r : AddCode(AddPatt(x, r[2]), <<Inst("Ret", 0)>>),
                    Pat(<<Inst("Call", 2), Inst("Jmp", total - 1)>>, <<>>), rules)
      names == [env |-> p.env, pos |-> pos]
      Fixed(c, i) ==
        IF c[i].op # "OpenCall" THEN c[i]
        ELSE Inst(IF At(c, Target(c, i + 1)).op = "Ret" THEN "Jmp" ELSE "Call",
                  pos[p.env[c[i].idx]] - i)
  IN IF \/ \E i \in DOMAIN p.code : p.code[i].op = "OpenCall" /\ p.env[p.code[i].idx] \notin DOMAIN pos
        \/ \E k \in DOMAIN rules : ~CheckRule(p.code, Place(k), Place(k + 1) - 1, names)
     THEN Bad
     ELSE OptimizeJumps([p EXCEPT !.code = [i \in DOMAIN @ |-> Fixed(@, i)]])
=============================================================================
