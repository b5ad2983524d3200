--------------------------------- MODULE Lexer ----------------------------------
(***************************************************************************)
(* The lexical analyser (llex.c): tokens of a text, one at a time, with a  *)
(* token of look-ahead.  text is the chunk, a sequence of bytes; a lexer   *)
(* state ls has the position of its current character, the buffer and the  *)
(* line; over, whether it read on after the end of the stream, where a     *)
(* ZIO (lzio.h) has no byte to give and its count wraps.                   *)
(***************************************************************************)
EXTENDS Integers, Sequences, SequencesExt, FiniteSets, FiniteSetsExt

CONSTANT Texts

VARIABLES text, ls, lookahead, given

vars == <<text, ls, lookahead, given>>

EOZ == -1
LF == 10
CR == 13
Digit == 48 .. 57
Alpha == (65 .. 90) \cup (97 .. 122) \cup {95}
AlNum == Alpha \cup Digit
Space == {32, 9, 11, 12}
Newline == {LF, CR}
OpenB == 91
CloseB == 93
Equals == 61
Dot == 46
Minus == 45
Backslash == 92
Quotes == {34, 39}
Reserved == {<<100, 111>>}                                      \* do, for all of luaX_tokens

Tok(kind, val) == [kind |-> kind, val |-> val]
Op(val) == Tok("op", val)
EOS == Tok("eos", <<>>)
Error == Tok("error", <<>>)
NoToken == Tok("none", <<>>)
Is(l, tok) == [l |-> l, tok |-> tok]

Cur(l) == IF l.pos <= Len(text) THEN text[l.pos] ELSE EOZ
Step(l) == [l EXCEPT !.pos = @ + 1, !.over = @ \/ l.pos > Len(text)]          \* next
Save(l, c) == [l EXCEPT !.buf = Append(@, c)]
SaveAndNext(l) == Step(Save(l, Cur(l)))
Reset(l) == [l EXCEPT !.buf = <<>>]

\* strchr finds the end of the set, too.
CheckNext(l, set) == IF Cur(l) \in set \cup {0} THEN SaveAndNext(l) ELSE l

RECURSIVE SaveAll(_, _)
SaveAll(l, set) == IF Cur(l) \in set THEN SaveAll(SaveAndNext(l), set) ELSE l

OneByOne(l) == [Step(l) EXCEPT !.line = @ + 1]                  \* mutant: CRLF is two lines
IncLineNumber(l) ==
  LET n == Step(l)
      pair == Cur(n) \in Newline /\ Cur(n) # Cur(l)
  IN [(IF pair THEN Step(n) ELSE n) EXCEPT !.line = @ + 1]

\* luaO_str2d of the buffer up to a zero: digits with a point, an exponent, or hexadecimal.
HexDigit == Digit \cup (65 .. 70) \cup (97 .. 102)
AllIn(s, set) == \A i \in DOMAIN s : s[i] \in set
Mantissa(s) == Cardinality({i \in DOMAIN s : s[i] = Dot}) < 2 /\ AllIn(s, Digit \cup {Dot}) /\ \E i \in DOMAIN s : s[i] \in Digit
Exponent(s) == LET d == IF s # <<>> /\ Head(s) \in {43, Minus} THEN Tail(s) ELSE s IN d # <<>> /\ AllIn(d, Digit)
IsNumeral(s) ==
  \/ Mantissa(s)
  \/ \E i \in DOMAIN s : s[i] \in {69, 101} /\ Mantissa(SubSeq(s, 1, i - 1)) /\ Exponent(SubSeq(s, i + 1, Len(s)))
  \/ Len(s) > 2 /\ s[1] = 48 /\ s[2] \in {88, 120} /\ AllIn(SubSeq(s, 3, Len(s)), HexDigit)
CString(s) == IF 0 \in Range(s) THEN SubSeq(s, 1, Min({i \in DOMAIN s : s[i] = 0}) - 1) ELSE s

ReadNumeral(l) ==
  LET mantissa == SaveAll(l, Digit \cup {Dot})
      e == CheckNext(mantissa, {69, 101})
      all == SaveAll(IF e # mantissa THEN CheckNext(e, {43, Minus}) ELSE e, AlNum)
      s == CString(all.buf)
  IN Is(all, IF IsNumeral(s) THEN Tok("number", s) ELSE Error)

SkipSep(l) ==
  LET s == Cur(l)
      n == SaveAll(SaveAndNext(l), {Equals})
      count == n.pos - l.pos - 1
  IN [l |-> n, sep |-> IF Cur(n) = s THEN count ELSE -count - 1]

RECURSIVE LongBody(_, _, _)
LongBody(l, sep, isString) ==
  LET c == Cur(l)
      k == SkipSep(l)
      inner == Len(l.buf) - (2 + sep)
  IN CASE c = EOZ -> Is(l, Error)
       [] c = OpenB -> IF k.sep # sep THEN LongBody(k.l, sep, isString)
                       ELSE IF sep = 0 THEN Is(k.l, Error) ELSE LongBody(SaveAndNext(k.l), sep, isString)
       [] c = CloseB -> IF k.sep # sep THEN LongBody(k.l, sep, isString)
                        ELSE Is(Step(k.l), IF isString THEN Tok("string", SubSeq(l.buf, 3 + sep, Len(l.buf))) ELSE NoToken)
       [] c \in Newline -> LET n == IncLineNumber(Save(l, LF)) IN LongBody(IF isString THEN n ELSE Reset(n), sep, isString)
       [] OTHER -> LongBody(IF isString THEN SaveAndNext(l) ELSE Step(l), sep, isString)
ReadLongString(l, sep, isString) ==
  LET first == SaveAndNext(l)
  IN LongBody(IF Cur(first) \in Newline THEN IncLineNumber(first) ELSE first, sep, isString)

EscapeOf(c) == CASE c = 97 -> 7 [] c = 98 -> 8 [] c = 102 -> 12 [] c = 110 -> LF [] c = 114 -> CR [] c = 116 -> 9 [] c = 118 -> 11
RECURSIVE Decimal(_, _, _)
Decimal(l, c, i) == IF i < 3 /\ Cur(l) \in Digit THEN Decimal(Step(l), 10 * c + Cur(l) - 48, i + 1) ELSE [l |-> l, c |-> c]

EatsEnd(l) == Step(l)                                           \* mutant: an escape at the end of the text
KeepsEnd(l) == l
RECURSIVE ReadString(_, _)
ReadString(l, del) ==
  LET c == Cur(l)
      n == Step(l)
      e == Cur(n)
      d == Decimal(n, 0, 0)
  IN CASE c = del -> Is(n, Tok("string", Tail(l.buf)))
       [] c # del /\ c \in Newline \cup {EOZ} -> Is(l, Error)
       [] c = Backslash ->
            CASE e \in {97, 98, 102, 110, 114, 116, 118} -> ReadString(Step(Save(n, EscapeOf(e))), del)
              [] e \in Newline -> ReadString(IncLineNumber(Save(n, LF)), del)
              [] e = EOZ -> ReadString(KeepsEnd(n), del)
              [] e \in Digit -> IF d.c > 255 THEN Is(d.l, Error) ELSE ReadString(Save(d.l, d.c), del)
              [] OTHER -> ReadString(SaveAndNext(n), del)
       [] OTHER -> ReadString(SaveAndNext(l), del)

RECURSIVE Llex(_), SkipLine(_)
SkipLine(l) == IF Cur(l) \in Newline \cup {EOZ} THEN l ELSE SkipLine(Step(l))
Comment(l) ==                                                   \* after the second minus
  LET k == SkipSep(l)
      long == ReadLongString(Reset(k.l), k.sep, FALSE)
  IN IF Cur(l) # OpenB THEN Llex(SkipLine(l))
     ELSE IF k.sep < 0 THEN Llex(SkipLine(Reset(k.l)))
     ELSE IF long.tok = Error THEN long ELSE Llex(Reset(long.l))
Name(l) == LET n == SaveAll(l, AlNum) IN Is(n, Tok(IF n.buf \in Reserved THEN "reserved" ELSE "name", n.buf))
Dots(l) ==
  LET one == SaveAndNext(l)
      two == CheckNext(one, {Dot})
      three == CheckNext(two, {Dot})
  IN CASE two # one -> Is(three, Op([i \in 1 .. IF three # two THEN 3 ELSE 2 |-> Dot]))
       [] two = one /\ Cur(one) \in Digit -> ReadNumeral(one)
       [] OTHER -> Is(one, Op(<<Dot>>))
Bracket(l) ==
  LET k == SkipSep(l)
  IN IF k.sep >= 0 THEN ReadLongString(k.l, k.sep, TRUE) ELSE IF k.sep = -1 THEN Is(k.l, Op(<<OpenB>>)) ELSE Is(k.l, Error)
OrEquals(l) == LET n == Step(l) IN IF Cur(n) = Equals THEN Is(Step(n), Op(<<Cur(l), Equals>>)) ELSE Is(n, Op(<<Cur(l)>>))

Llex(l) ==
  LET c == Cur(l) IN
  CASE c \in Newline -> Llex(IncLineNumber(l))
    [] c \in Space -> Llex(Step(l))
    [] c = Minus -> IF Cur(Step(l)) = Minus THEN Comment(Step(Step(l))) ELSE Is(Step(l), Op(<<Minus>>))
    [] c = OpenB -> Bracket(l)
    [] c \in {Equals, 60, 62, 126} -> OrEquals(l)
    [] c \in Quotes -> ReadString(SaveAndNext(l), c)
    [] c = Dot -> Dots(l)
    [] c = EOZ -> Is(l, EOS)
    [] c \in Digit -> ReadNumeral(l)
    [] c \in Alpha -> Name(l)
    [] OTHER -> Is(Step(l), Op(<<c>>))

Init == /\ text \in Texts /\ lookahead = NoToken /\ given = <<>>
        /\ ls = [pos |-> 1, buf |-> <<>>, line |-> 1, over |-> FALSE]          \* luaX_setinput

Lexed == Llex(Reset(ls))
Ended == given # <<>> /\ Last(given).kind \in {"eos", "error"}
LookAhead ==
  /\ ~Ended /\ lookahead = NoToken
  /\ ls' = Lexed.l /\ UNCHANGED text
  /\ lookahead' = IF Lexed.tok = Error THEN NoToken ELSE Lexed.tok
  /\ given' = IF Lexed.tok = Error THEN Append(given, Error) ELSE given
NextToken ==
  /\ ~Ended /\ UNCHANGED text
  /\ \/ lookahead # NoToken /\ given' = Append(given, lookahead) /\ lookahead' = NoToken /\ UNCHANGED ls
     \/ lookahead = NoToken /\ given' = Append(given, Lexed.tok) /\ ls' = Lexed.l /\ UNCHANGED lookahead

Next == LookAhead \/ NextToken
Spec == Init /\ [][Next]_vars

(***************************************************************************)
(* What the text says, by the shape of its tokens.                         *)
(***************************************************************************)
Sub(i, j) == SubSeq(text, i, j)
IsBracket(i, k, b) == /\ i + k + 1 <= Len(text) /\ text[i] = b /\ text[i + k + 1] = b /\ AllIn(Sub(i + 1, i + k), {Equals})
Levels(i) == {k \in 0 .. Len(text) : IsBracket(i, k, OpenB)}
Lines(s) == LET first == {i \in DOMAIN s : s[i] \in Newline}
                RECURSIVE Count(_)
                Count(i) == IF i > Len(s) THEN 0 ELSE IF i \notin first THEN Count(i + 1)
                            ELSE 1 + Count(IF i + 1 \in first /\ s[i + 1] # s[i] THEN i + 2 ELSE i + 1)
            IN Count(1)
RECURSIVE Unified(_)
Unified(s) ==                      \* line breaks of a string are LF
  IF s = <<>> THEN <<>>
  ELSE IF Head(s) \notin Newline THEN <<Head(s)>> \o Unified(Tail(s))
  ELSE <<LF>> \o Unified(IF Len(s) > 1 /\ s[2] \in Newline \ {s[1]} THEN Tail(Tail(s)) ELSE Tail(s))
\* A long bracket of level k at i: [end, val], or end 0 when it is not finished.
Long(i, k) ==
  LET closers == {j \in i + k + 2 .. Len(text) : IsBracket(j, k, CloseB)}
      j == Min(closers)
      body == Unified(Sub(i + k + 2, j - 1))
      skip == i + k + 2 <= Len(text) /\ text[i + k + 2] \in Newline /\ j > i + k + 2
      nested == k = 0 /\ \E m \in i + 2 .. j - 1 : IsBracket(m, 0, OpenB) /\ m + 1 < j
  IN IF closers = {} \/ nested THEN [end |-> 0, val |-> <<>>]
     ELSE [end |-> j + k + 1, val |-> IF skip THEN Tail(body) ELSE body]
EndOfLine(i) == LET e == {j \in i .. Len(text) : text[j] \in Newline} IN IF e = {} THEN Len(text) ELSE Min(e) - 1
\* The longest token or blank that starts at i, as [end, tok].
At(end, tok) == [end |-> end, tok |-> tok]
OpsAt(i) == {n \in 1 .. 3 : i + n - 1 <= Len(text) /\ (n = 1 \/ Sub(i, i + n - 1) \in
              {<<Dot, Dot>>, <<Dot, Dot, Dot>>, <<Equals, Equals>>, <<60, Equals>>, <<62, Equals>>, <<126, Equals>>})}
NumberEnd(i) ==
  LET Run(j, set) == Max({j} \cup {m \in j + 1 .. Len(text) : AllIn(Sub(j + 1, m), set)})
      m == Run(i, Digit \cup {Dot})
      e == IF m < Len(text) /\ text[m + 1] \in {69, 101} THEN m + 1 ELSE m
      sign == IF e > m /\ e < Len(text) /\ text[e + 1] \in {43, Minus} THEN e + 1 ELSE e
  IN Run(sign, AlNum)
Escaped(i, j) == Cardinality({m \in i + 1 .. j - 1 : AllIn(Sub(m, j - 1), {Backslash})}) % 2 = 1
StringEnds(i) == {j \in i + 1 .. Len(text) : text[j] = text[i] /\ ~Escaped(i, j)}
TokenAt(i) ==
  LET c == text[i] IN
  CASE c \in Newline \cup Space -> At(i, NoToken)
    [] c = Minus /\ i < Len(text) /\ text[i + 1] = Minus ->
         IF Levels(i + 2) = {} THEN At(EndOfLine(i), NoToken)
         ELSE LET b == Long(i + 2, Max(Levels(i + 2))) IN IF b.end = 0 THEN At(i, Error) ELSE At(b.end, NoToken)
    [] c = OpenB /\ Levels(i) # {} ->
         LET b == Long(i, Max(Levels(i))) IN IF b.end = 0 THEN At(i, Error) ELSE At(b.end, Tok("string", b.val))
    [] c = OpenB /\ Levels(i) = {} /\ i < Len(text) /\ text[i + 1] = Equals -> At(i, Error)
    [] c \in Digit \/ (c = Dot /\ i < Len(text) /\ text[i + 1] \in Digit) ->
         LET e == NumberEnd(i) IN At(e, IF IsNumeral(Sub(i, e)) THEN Tok("number", Sub(i, e)) ELSE Error)
    [] c \in Alpha ->
         LET e == Max({j \in i .. Len(text) : AllIn(Sub(i, j), AlNum)}) IN At(e, Tok(IF Sub(i, e) \in Reserved THEN "reserved" ELSE "name", Sub(i, e)))
    [] c \in Quotes ->
         LET ends == StringEnds(i)
             e == Min(ends)
             raw == {j \in i + 1 .. e - 1 : text[j] \in Newline /\ ~Escaped(i, j)
                                                /\ ~(text[j - 1] \in Newline \ {text[j]} /\ Escaped(i, j - 1))}
         IN IF ends = {} \/ raw # {} THEN At(i, Error) ELSE At(e, Tok("quoted", Sub(i + 1, e - 1)))
    [] OTHER -> At(i + Max(OpsAt(i)) - 1, Op(Sub(i, i + Max(OpsAt(i)) - 1)))
RECURSIVE TokensFrom(_)
TokensFrom(i) ==
  IF i > Len(text) THEN <<At(Len(text), EOS)>>
  ELSE LET t == TokenAt(i) IN
       IF t.tok = Error THEN <<t>> ELSE (IF t.tok = NoToken THEN <<>> ELSE <<t>>) \o TokensFrom(t.end + 1)

\* What is written between quotes, without escapes of digits beyond a byte.
RECURSIVE Meaning(_)
Meaning(s) ==
  IF s = <<>> THEN <<>>
  ELSE IF Head(s) # Backslash THEN <<Head(s)>> \o Meaning(Tail(s))
  ELSE LET digits == Max({n \in 0 .. 3 : n < Len(s) /\ AllIn(SubSeq(s, 2, n + 1), Digit)})
           code == FoldLeft(LAMBDA v, x : 10 * v + x - 48, 0, SubSeq(s, 2, digits + 1))
           pair == Len(s) > 2 /\ s[3] \in Newline /\ s[3] # s[2]
       IN CASE digits > 0 -> (IF code > 255 THEN <<-1>> ELSE <<code>>) \o Meaning(SubSeq(s, digits + 2, Len(s)))
            [] digits = 0 /\ s[2] \in Newline -> <<LF>> \o Meaning(SubSeq(s, IF pair THEN 4 ELSE 3, Len(s)))
            [] digits = 0 /\ s[2] \in {97, 98, 102, 110, 114, 116, 118} -> <<EscapeOf(s[2])>> \o Meaning(SubSeq(s, 3, Len(s)))
            [] OTHER -> <<s[2]>> \o Meaning(SubSeq(s, 3, Len(s)))
Meant(t) == IF t.kind # "quoted" THEN t
            ELSE IF -1 \in Range(Meaning(t.val)) THEN Error ELSE Tok("string", Meaning(t.val))

(***************************************************************************)
(* Properties.                                                             *)
(***************************************************************************)
\* The parser is given the tokens of the text, in order, up to the first thing that
\* is none, whenever it looks ahead; at the end the lines have been counted, a pair
\* of CR and LF as one; and the lexer never reads after the end of the stream.
TokensAsWritten ==
  LET all == TokensFrom(1)
  IN /\ ~ls.over
     /\ Len(given) <= Len(all) /\ \A i \in DOMAIN given : given[i] = Meant(all[i].tok)
     /\ given # <<>> /\ Last(given) = EOS => ls.line = 1 + Lines(text)
=============================================================================
