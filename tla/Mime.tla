---------------------------------- MODULE Mime ----------------------------------
(***************************************************************************)
(* The transfer encodings of LuaSocket (mime.c) as filters of LTN12        *)
(* (ltn12.lua): a text goes, in chunks of any size, through a chain of     *)
(* filters, each of which keeps the end of its input it cannot convert yet *)
(* as its context for the next chunk.                                      *)
(*                                                                         *)
(* A chunk is a sequence of bytes; Nil, the end of the input.  job gives   *)
(* the text and the filters, [f, extra] with the line length or the marker *)
(* as extra; ch is the state of the chain.                                 *)
(***************************************************************************)
EXTENDS Integers, Sequences, SequencesExt

CONSTANT Jobs

VARIABLES job, rest, ch, filtered, done, out, pc

vars == <<job, rest, ch, filtered, done, out, pc>>

Nil == <<-1>>
CR == 13
LF == 10
CRLF == <<CR, LF>>
Eq == 61
EqCRLF == <<Eq, CR, LF>>

\* What a low-level filter returns: its output and its next context.
Low(ret, ctx) == [ret |-> ret, ctx |-> ctx]
OrNil(s) == IF s = <<>> THEN Nil ELSE s

(***************************************************************************)
(* Filters that gather bytes in an atom until they can convert it.         *)
(***************************************************************************)
Acc == [atom |-> <<>>, out |-> <<>>]
Emit(a, s) == [atom |-> <<>>, out |-> a.out \o s]
Gathered(Step(_, _), Pad(_), ctx, chunk) ==
  LET first == FoldLeft(Step, Acc, ctx)
      all == FoldLeft(Step, first, chunk)
  IN IF ctx = Nil THEN Low(Nil, Nil)
     ELSE IF chunk = Nil THEN Low(OrNil(Pad(first).out), Nil) ELSE Low(all.out, all.atom)

B64Base(i) == CASE i < 26 -> 65 + i [] i \in 26 .. 51 -> 71 + i [] i \in 52 .. 61 -> i - 4
                [] i = 62 -> 43 [] i = 63 -> 47
B64Unbase(c) == IF c = Eq THEN 0 ELSE IF \E i \in 0 .. 63 : B64Base(i) = c THEN CHOOSE i \in 0 .. 63 : B64Base(i) = c ELSE 255
Sextets(value, k) == [i \in 1 .. k |-> B64Base((value \div 64 ^ (k - i)) % 64)]

B64Encode(a, c) ==
  LET s == Append(a.atom, c)
  IN IF Len(s) < 3 THEN [a EXCEPT !.atom = s] ELSE Emit(a, Sextets((s[1] * 256 + s[2]) * 256 + s[3], 4))
B64Unpadded(a) == IF a.atom = <<>> THEN a ELSE Emit(a, Sextets(a.atom[1] * 16, 2) \o <<Eq, Eq>>)  \* mutant: one case
B64Pad(a) ==
  CASE Len(a.atom) = 1 -> Emit(a, Sextets(a.atom[1] * 16, 2) \o <<Eq, Eq>>)
    [] Len(a.atom) = 2 -> Emit(a, Sextets((a.atom[1] * 256 + a.atom[2]) * 4, 3) \o <<Eq>>)
    [] OTHER -> a

B64Decode(a, c) ==
  LET s == Append(a.atom, c)
      value == FoldLeft(LAMBDA v, x : v * 64 + B64Unbase(x), 0, s)
      bytes == <<(value \div 65536) % 256, (value \div 256) % 256, value % 256>>
      valid == IF s[3] = Eq THEN 1 ELSE IF s[4] = Eq THEN 2 ELSE 3
  IN IF B64Unbase(c) > 64 THEN a                        \* not a character of the code
     ELSE IF Len(s) < 4 THEN [a EXCEPT !.atom = s] ELSE Emit(a, SubSeq(bytes, 1, valid))

QpClass(c) == CASE c \in {9, 32} -> "if last" [] c = CR -> "cr"
                [] c \in (33 .. 60) \cup (62 .. 126) -> "plain" [] OTHER -> "quoted"
Hex(d) == IF d < 10 THEN 48 + d ELSE 55 + d
Quote(c) == <<Eq, Hex(c \div 16), Hex(c % 16)>>
UnHex(c) == CASE c \in 48 .. 57 -> c - 48 [] c \in 65 .. 70 -> c - 55 [] c \in 97 .. 102 -> c - 87 [] OTHER -> 255

\* qpencode: from the front of the atom, as long as it is known what to do.
RECURSIVE QpSettle(_, _)
QpSettle(a, marker) ==
  LET s == a.atom
      Out(x) == QpSettle([atom |-> Tail(s), out |-> a.out \o x], marker)
  IN IF s = <<>> THEN a
     ELSE CASE QpClass(s[1]) = "cr" -> IF Len(s) < 2 THEN a
                                       ELSE IF s[2] = LF THEN Emit(a, marker) ELSE Out(Quote(CR))
            [] QpClass(s[1]) = "if last" -> IF Len(s) < 3 THEN a
                                            ELSE IF s[2] = CR /\ s[3] = LF THEN Emit(a, Quote(s[1]) \o marker)
                                            ELSE Out(<<s[1]>>)
            [] QpClass(s[1]) = "quoted" -> Out(Quote(s[1]))
            [] OTHER -> Out(<<s[1]>>)
QpEncode(a, c, marker) == QpSettle([a EXCEPT !.atom = Append(@, c)], marker)
QpPad(a) ==
  LET text == FlattenSeq([i \in DOMAIN a.atom |-> IF QpClass(a.atom[i]) = "plain" THEN <<a.atom[i]>> ELSE Quote(a.atom[i])])
  IN IF a.atom = <<>> THEN a ELSE Emit(a, text \o EqCRLF)

QpDecode(a, c) ==
  LET s == Append(a.atom, c)
      more == [a EXCEPT !.atom = s]
      known == UnHex(s[2]) <= 15 /\ UnHex(s[3]) <= 15
  IN CASE s[1] = Eq -> IF Len(s) < 3 THEN more
                       ELSE IF s[2] = CR /\ s[3] = LF THEN Emit(a, <<>>)
                       ELSE IF known THEN Emit(a, <<UnHex(s[2]) * 16 + UnHex(s[3])>>) ELSE Emit(a, s)
       [] s[1] = CR -> IF Len(s) < 2 THEN more ELSE Emit(a, IF s[2] = LF THEN s ELSE <<>>)
       [] OTHER -> Emit(a, IF s[1] = 9 \/ s[1] \in 32 .. 126 THEN s ELSE <<>>)

(***************************************************************************)
(* Filters whose context is a number.                                      *)
(***************************************************************************)
Counted(Step(_, _), ctx, chunk) ==
  LET a == FoldLeft(Step, [n |-> ctx, out |-> <<>>], chunk) IN Low(a.out, a.n)
Put(a, s, n) == [n |-> n, out |-> a.out \o s]

Wrap(a, c, length) ==                   \* mime_global_wrp
  CASE c = CR -> a
    [] c = LF -> Put(a, CRLF, length)
    [] OTHER -> IF a.n <= 0 THEN Put(a, Append(CRLF, c), length - 1) ELSE Put(a, <<c>>, a.n - 1)

NoEscape(c) == 1                        \* mutant: =XX is broken in the middle
Escape(c) == IF c = Eq THEN 3 ELSE 1    \* the room a character needs
QpWrap(a, c, length) ==                 \* mime_global_qpwrp
  CASE c = CR -> a
    [] c = LF -> Put(a, CRLF, length)
    [] OTHER -> IF a.n <= Escape(c) THEN Put(a, Append(EqCRLF, c), length - 1) ELSE Put(a, <<c>>, a.n - 1)

EolCandidate(c) == c \in {CR, LF}
EolProcess(a, c, marker) ==
  IF ~EolCandidate(c) THEN Put(a, <<c>>, 0)
  ELSE IF ~EolCandidate(a.n) THEN Put(a, marker, c)
  ELSE Put(a, IF c = a.n THEN marker ELSE <<>>, 0)

Forgets(state) == 0                     \* mutant: a line that starts in the next chunk
AfterLF(state) == IF state = 1 THEN 2 ELSE 0
Dot(a, c) ==
  CASE c = CR -> Put(a, <<c>>, 1)
    [] c = LF -> Put(a, <<c>>, AfterLF(a.n))
    [] OTHER -> Put(a, IF c = 46 /\ a.n = 2 THEN <<c, c>> ELSE <<c>>, 0)

Low1(f, ctx, chunk, extra) ==
  CASE f = "b64" -> Gathered(B64Encode, B64Pad, ctx, chunk)
    [] f = "unb64" -> Gathered(B64Decode, LAMBDA a : a, ctx, chunk)
    [] f = "qp" -> Gathered(LAMBDA a, c : QpEncode(a, c, extra), QpPad, ctx, chunk)
    [] f = "unqp" -> Gathered(QpDecode, LAMBDA a : a, ctx, chunk)
    [] f \in {"wrp", "qpwrp"} /\ chunk = Nil ->
         Low(IF ctx < extra THEN IF f = "wrp" THEN CRLF ELSE EqCRLF ELSE Nil, extra)
    [] f = "wrp" /\ chunk # Nil -> Counted(LAMBDA a, c : Wrap(a, c, extra), ctx, chunk)
    [] f = "qpwrp" /\ chunk # Nil -> Counted(LAMBDA a, c : QpWrap(a, c, extra), ctx, chunk)
    [] f = "eol" -> IF chunk = Nil THEN Low(Nil, 0) ELSE Counted(LAMBDA a, c : EolProcess(a, c, extra), ctx, chunk)
    [] f = "dot" -> IF chunk = Nil THEN Low(Nil, 2) ELSE Counted(Dot, ctx, chunk)

(***************************************************************************)
(* The chain: the filter at top is the first one not at its end; those     *)
(* after it, up to index, may hold more output for the chunk at hand.      *)
(***************************************************************************)
Start(f, extra) == CASE f \in {"b64", "unb64", "qp", "unqp"} -> <<>> [] f \in {"wrp", "qpwrp"} -> extra
                     [] f = "eol" -> 0 [] f = "dot" -> 2

RECURSIVE ChainLoop(_, _)
Passed(c, ret, atTop) ==                \* what to do with the output of the filter at index
  CASE atTop /\ (ret = <<>> \/ c.top = Len(job.filters)) -> [c |-> c, ret |-> ret]
    [] atTop /\ ret = Nil /\ c.top # Len(job.filters) -> ChainLoop([c EXCEPT !.top = @ + 1, !.index = c.top + 1], Nil)
    [] ~atTop /\ ret = <<>> -> ChainLoop([c EXCEPT !.index = @ - 1], c.retry)
    [] ~atTop /\ ret = Nil -> [c |-> [c EXCEPT !.failed = TRUE], ret |-> Nil]
    [] ~atTop /\ ret \notin {<<>>, Nil} /\ c.index = Len(job.filters) -> [c |-> c, ret |-> ret]
    [] OTHER -> ChainLoop([c EXCEPT !.index = @ + 1], ret)
Kept(c, r) == Passed([c EXCEPT !.ctx[c.index] = r.ctx], r.ret, c.index = c.top)
ChainLoop(c, chunk) ==
  LET f == job.filters[c.index]
  IN Kept(c, Low1(f.f, c.ctx[c.index], IF c.index # c.top /\ chunk = Nil THEN <<>> ELSE chunk, f.extra))
Chain(c, chunk) == ChainLoop([c EXCEPT !.retry = IF chunk = Nil THEN Nil ELSE @], chunk)

Init ==
  /\ job \in Jobs
  /\ rest = job.text /\ filtered = <<>> /\ done = <<>> /\ out = <<>> /\ pc = "pump"
  /\ ch = [ctx |-> [i \in DOMAIN job.filters |-> Start(job.filters[i].f, job.filters[i].extra)],
           top |-> 1, index |-> 1, retry |-> <<>>, failed |-> FALSE]

\* pump.step with sink.chain: the chunk is filtered, unless it is empty ...
Gives(r) == ch' = r.c /\ filtered' = r.ret
Filter(chunk) == Gives(Chain(ch, chunk)) /\ pc' = "sink" /\ UNCHANGED <<job, out>>

PumpChunk ==
  /\ pc = "pump" /\ rest # <<>>
  /\ \E k \in 1 .. Len(rest) :
       /\ rest' = SubSeq(rest, k + 1, Len(rest)) /\ done' = <<>>
       /\ Filter(SubSeq(rest, 1, k))

PumpEnd == pc = "pump" /\ rest = <<>> /\ done' = Nil /\ UNCHANGED rest /\ Filter(Nil)

\* ... and what the chain returns is stored until it has no more.
Sink ==
  /\ pc = "sink"
  /\ out' = IF filtered = Nil THEN out ELSE out \o filtered
  /\ IF filtered = done THEN pc' = (IF done = Nil THEN "end" ELSE "pump") /\ UNCHANGED <<ch, filtered>>
     ELSE Gives(Chain(ch, done)) /\ UNCHANGED pc
  /\ UNCHANGED <<job, rest, done>>

Next == PumpChunk \/ PumpEnd \/ Sink
Spec == Init /\ [][Next]_vars /\ WF_vars(Next)

(***************************************************************************)
(* Properties.                                                             *)
(***************************************************************************)
Over == pc = "end"
Names == [i \in DOMAIN job.filters |-> job.filters[i].f]

\* However the text is cut in chunks, decoding what was encoded, wrapped or not,
\* gives the text back, and no filter of a chain is asked for more after its end.
RoundTrips ==
  ~ch.failed /\ (Over /\ Names[Len(Names)] \in {"unb64", "unqp"} => out = job.text)

\* No line of a wrapped text is longer than asked, a =XX is never broken, and a
\* line break of the text is one of the output.
Lines(s) == {i \in 0 .. Len(s) : i = 0 \/ (i > 1 /\ s[i - 1] = CR /\ s[i] = LF)}      \* where lines start
LinesFit ==
  Over /\ Names[Len(Names)] \in {"wrp", "qpwrp"} =>
    LET length == job.filters[Len(Names)].extra
        Text(i) == {j \in i + 1 .. Len(out) : ~\E k \in Lines(out) : i < k /\ k <= j + 1}
    IN /\ \A i \in Lines(out) : \A j \in Text(i) : j - i <= length
       /\ Names[Len(Names)] = "qpwrp" =>
            \A i \in DOMAIN out : out[i] = Eq => i + 2 \in DOMAIN out /\ (out[i + 1] = CR \/ (out[i + 1] # Eq /\ out[i + 2] \notin {Eq, CR}))

\* Ends of line of any convention become CRLF, a pair of two different characters
\* being one and of the same character two, and a line of a message that starts
\* with a dot gets another.
RECURSIVE Canonical(_)
Canonical(s) ==
  LET pair == Len(s) > 1 /\ EolCandidate(s[2])
  IN IF s = <<>> THEN <<>>
     ELSE IF ~EolCandidate(s[1]) THEN <<s[1]>> \o Canonical(Tail(s))
     ELSE CRLF \o (IF pair /\ s[1] = s[2] THEN CRLF ELSE <<>>) \o Canonical(IF pair THEN Tail(Tail(s)) ELSE Tail(s))
Stuffed(s) == FlattenSeq([i \in DOMAIN s |-> IF s[i] = 46 /\ i - 1 \in Lines(s) THEN <<46, 46>> ELSE <<s[i]>>])
CanonicalText == Over /\ Names = <<"eol", "dot">> => out = Stuffed(Canonical(job.text))
=============================================================================
