------------------------------- MODULE LuaStrings -------------------------------
(***************************************************************************)
(* The string library of Lua 5.1 (lstrlib.c): pattern matching and the     *)
(* functions built on it, find, match, gmatch and gsub, with sub and byte. *)
(*                                                                         *)
(* A string is a sequence of characters.  Text(s) is s with the `\0' that  *)
(* ends it; a position is an index, and reading past the `\0' is an error  *)
(* of the model.  The captures ms are the sequence MatchState.capture up   *)
(* to its level; a match leaves them as the C code does when it fails.     *)
(***************************************************************************)
EXTENDS Integers, Sequences, FiniteSets, SequencesExt, TLC

CONSTANTS Order,          \* the characters, in the order of their codes
          Alpha, Digit,   \* isalpha, isdigit
          MaxCaptures,    \* LUA_MAXCAPTURES
          Jobs            \* the calls: [op, s, p, init, last, repl, max]

VARIABLES job, src, out, n, status

vars == <<job, src, out, n, status>>

Nul == ""
Text(s) == Append(s, Nul)
CodeOf(ch) == IF ch = Nul THEN 0 ELSE CHOOSE k \in DOMAIN Order : Order[k] = ch

Unfinished == -1
Position == -2
Special == {"^", "$", "*", "+", "?", ".", "(", "[", "%", "-"}

\* How a match ends: at e, nowhere, or with an error.
Yes(e, ms) == [ok |-> "yes", e |-> e, ms |-> ms]
No(ms) == [ok |-> "no", e |-> 0, ms |-> ms]
Err(ms) == [ok |-> "error", e |-> 0, ms |-> ms]

(***************************************************************************)
(* Single characters.                                                      *)
(***************************************************************************)
RECURSIVE BracketEnd(_, _)
BracketEnd(p, i) ==             \* 0 when the `]' is missing
  LET j == IF p[i] = "%" /\ p[i + 1] # Nul THEN i + 2 ELSE i + 1
  IN IF p[i] = Nul THEN 0 ELSE IF p[j] = "]" THEN j + 1 ELSE BracketEnd(p, j)

ClassEnd(p, i) ==
  CASE p[i] = "%" -> IF p[i + 1] = Nul THEN 0 ELSE i + 2
    [] p[i] = "[" -> BracketEnd(p, IF p[i + 1] = "^" THEN i + 2 ELSE i + 1)
    [] OTHER -> i + 1

MatchClass(ch, cl) ==
  CASE cl = "a" -> ch \in Alpha [] cl = "A" -> ch \notin Alpha
    [] cl = "d" -> ch \in Digit [] cl = "D" -> ch \notin Digit
    [] OTHER -> ch = cl

RECURSIVE InBracket(_, _, _, _)
InBracket(ch, p, i, ec) ==      \* some member from i to ec - 1 is ch
  CASE i >= ec -> FALSE
    [] i < ec /\ p[i] = "%" -> MatchClass(ch, p[i + 1]) \/ InBracket(ch, p, i + 2, ec)
    [] i < ec /\ p[i] # "%" /\ p[i + 1] = "-" /\ i + 2 < ec ->
         (CodeOf(p[i]) <= CodeOf(ch) /\ CodeOf(ch) <= CodeOf(p[i + 2])) \/ InBracket(ch, p, i + 3, ec)
    [] OTHER -> p[i] = ch \/ InBracket(ch, p, i + 1, ec)

MatchBracketClass(ch, p, i, ec) ==
  IF p[i + 1] = "^" THEN ~InBracket(ch, p, i + 2, ec) ELSE InBracket(ch, p, i + 1, ec)

SingleMatch(ch, p, i, ep) ==
  CASE p[i] = "." -> TRUE
    [] p[i] = "%" -> MatchClass(ch, p[i + 1])
    [] p[i] = "[" -> MatchBracketClass(ch, p, i, ep - 1)
    [] OTHER -> p[i] = ch

MatchBalance(s, i, p, j) ==     \* where the balanced text ends, 0 if nowhere
  LET depth(k) == 1 + Cardinality({m \in i + 1 .. k : s[m] = p[j] /\ s[m] # p[j + 1]})
                    - Cardinality({m \in i + 1 .. k : s[m] = p[j + 1]})
      ends == {k \in i + 1 .. Len(s) - 1 : depth(k) = 0}
  IN IF s[i] # p[j] \/ ends = {} THEN 0 ELSE 1 + CHOOSE k \in ends : \A m \in ends : k <= m

(***************************************************************************)
(* match(ms, s, p): s and p are the positions i and j.                     *)
(***************************************************************************)
RECURSIVE DoMatch(_, _, _, _, _), Longest(_, _, _, _, _, _, _), Shortest(_, _, _, _, _, _)

\* max_expand: from k repetitions down to none.
Longest(s, i, p, j, ep, ms, k) ==
  LET r == DoMatch(s, i + k, p, ep + 1, ms)
  IN IF k < 0 THEN No(ms) ELSE IF r.ok # "no" THEN r ELSE Longest(s, i, p, j, ep, r.ms, k - 1)
MaxExpand(s, i, p, j, ep, ms) ==
  LET fits == {k \in 0 .. Len(s) - i : \A m \in 0 .. k - 1 : SingleMatch(s[i + m], p, j, ep)}
  IN Longest(s, i, p, j, ep, ms, CHOOSE k \in fits : \A m \in fits : m <= k)

Shortest(s, i, p, j, ep, ms) ==         \* min_expand
  LET r == DoMatch(s, i, p, ep + 1, ms)
  IN IF r.ok # "no" THEN r
     ELSE IF i < Len(s) /\ SingleMatch(s[i], p, j, ep) THEN Shortest(s, i + 1, p, j, ep, r.ms)
     ELSE r

StartCapture(s, i, p, j, ms, what) ==
  LET r == DoMatch(s, i, p, j, Append(ms, [init |-> i, len |-> what]))
  IN IF Len(ms) >= MaxCaptures THEN Err(ms)
     ELSE IF r.ok = "no" THEN No(Front(r.ms)) ELSE r

Open(ms) == {l \in DOMAIN ms : ms[l].len = Unfinished}
EndKept(s, i, p, j, ms) ==              \* mutant: a failed match leaves the capture closed
  LET l == CHOOSE x \in Open(ms) : \A y \in Open(ms) : y <= x
  IN IF Open(ms) = {} THEN Err(ms) ELSE DoMatch(s, i, p, j, [ms EXCEPT ![l].len = i - ms[l].init])
EndCapture(s, i, p, j, ms) ==
  LET l == CHOOSE x \in Open(ms) : \A y \in Open(ms) : y <= x       \* capture_to_close
      r == DoMatch(s, i, p, j, [ms EXCEPT ![l].len = i - ms[l].init])
  IN IF Open(ms) = {} THEN Err(ms)
     ELSE IF r.ok = "no" THEN No([r.ms EXCEPT ![l].len = Unfinished]) ELSE r

Digits == <<"1", "2", "3", "4", "5", "6", "7", "8", "9">>
MatchCapture(s, i, p, j, ms, digit) ==
  LET l == IF digit = "0" THEN 0 ELSE CHOOSE k \in DOMAIN Digits : Digits[k] = digit
      c == ms[l]
      same == c.len >= 0 /\ Len(s) - i >= c.len /\ SubSeq(s, c.init, c.init + c.len - 1) = SubSeq(s, i, i + c.len - 1)
  IN IF l \notin DOMAIN ms \ Open(ms) THEN Err(ms)                  \* check_capture
     ELSE IF same THEN DoMatch(s, i + c.len, p, j, ms) ELSE No(ms)

Frontier(s, i, p, j, ms) ==
  LET ep == ClassEnd(p, j)
      previous == IF i = 1 THEN Nul ELSE s[i - 1]
  IN IF p[j] # "[" \/ ep = 0 THEN Err(ms)
     ELSE IF MatchBracketClass(previous, p, j, ep - 1) \/ ~MatchBracketClass(s[i], p, j, ep - 1) THEN No(ms)
     ELSE DoMatch(s, i, p, ep, ms)

Item(s, i, p, j, ms) ==
  LET ep == ClassEnd(p, j)
      m == i < Len(s) /\ SingleMatch(s[i], p, j, ep)
      r == DoMatch(s, i + 1, p, ep + 1, ms)
  IN CASE ep = 0 -> Err(ms)
       [] ep # 0 /\ p[ep] = "?" -> IF m /\ r.ok # "no" THEN r
                                   ELSE DoMatch(s, i, p, ep + 1, IF m THEN r.ms ELSE ms)
       [] ep # 0 /\ p[ep] = "*" -> MaxExpand(s, i, p, j, ep, ms)
       [] ep # 0 /\ p[ep] = "+" -> IF m THEN MaxExpand(s, i + 1, p, j, ep, ms) ELSE No(ms)
       [] ep # 0 /\ p[ep] = "-" -> Shortest(s, i, p, j, ep, ms)
       [] OTHER -> IF m THEN DoMatch(s, i + 1, p, ep, ms) ELSE No(ms)

DoMatch(s, i, p, j, ms) ==
  LET b == MatchBalance(s, i, p, j + 2)
  IN CASE p[j] = "(" -> IF p[j + 1] = ")" THEN StartCapture(s, i, p, j + 2, ms, Position)
                        ELSE StartCapture(s, i, p, j + 1, ms, Unfinished)
       [] p[j] = ")" -> EndCapture(s, i, p, j + 1, ms)
       [] p[j] = "%" /\ p[j + 1] = "b" ->
            IF p[j + 2] = Nul \/ p[j + 3] = Nul THEN Err(ms)
            ELSE IF b = 0 THEN No(ms) ELSE DoMatch(s, b, p, j + 4, ms)
       [] p[j] = "%" /\ p[j + 1] = "f" -> Frontier(s, i, p, j + 2, ms)
       [] p[j] = "%" /\ p[j + 1] \in Digit -> MatchCapture(s, i, p, j + 2, ms, p[j + 1])
       [] p[j] = Nul -> Yes(i, ms)
       [] p[j] = "$" /\ p[j + 1] = Nul -> IF i = Len(s) THEN Yes(i, ms) ELSE No(ms)
       [] OTHER -> Item(s, i, p, j, ms)

(***************************************************************************)
(* Captures as values, and the search.                                     *)
(***************************************************************************)
Fault == <<"error">>
At(i) == <<"at", ToString(i)>>            \* a position, as a number
OneCapture(s, ms, l, i, e) ==           \* push_onecapture
  CASE l > Len(ms) -> IF l = 1 THEN SubSeq(s, i, e - 1) ELSE Fault
    [] l <= Len(ms) /\ ms[l].len = Unfinished -> Fault
    [] l <= Len(ms) /\ ms[l].len = Position -> At(ms[l].init)
    [] OTHER -> SubSeq(s, ms[l].init, ms[l].init + ms[l].len - 1)

Captures(s, ms, whole, i, e) ==         \* push_captures
  [l \in 1 .. IF ms = <<>> /\ whole THEN 1 ELSE Len(ms) |-> OneCapture(s, ms, l, i, e)]

PosOff(pos, len) == IF pos >= 0 THEN pos ELSE len + pos       \* mutant: -1 is the last but one
PosRelat(pos, len) == IF pos >= 0 THEN pos ELSE len + pos + 1

Anchored(p) == p[1] = "^"
Found(r, i) == [r EXCEPT !.ms = [at |-> i, ms |-> @]]
RECURSIVE Search(_, _, _, _)
SearchOn(r, s, i, p, anchor) ==
  CASE r.ok # "no" -> Found(r, i)
    [] r.ok = "no" /\ i < Len(s) /\ ~anchor -> Search(s, i + 1, p, anchor)
    [] OTHER -> Found(r, 0)
Search(s, i, p, anchor) ==      \* the loop of str_find_aux
  SearchOn(DoMatch(s, i, p, IF anchor THEN 2 ELSE 1, <<>>), s, i, p, anchor)

PlainFind(s, i, p) ==           \* lmemfind
  LET at == {k \in i .. Len(s) - Len(p) + 1 : SubSeq(s, k, k + Len(p) - 1) = p}
  IN IF at = {} THEN 0 ELSE CHOOSE k \in at : \A m \in at : k <= m

(***************************************************************************)
(* The functions.                                                          *)
(***************************************************************************)
S == Text(job.s)
Pat == Text(job.p)
Ended(how, o) == status' = how /\ out' = o /\ UNCHANGED <<job, src, n>>
FaultIn(o) == \E k \in DOMAIN o : o[k] = Fault

Init ==
  /\ job \in Jobs
  /\ src = 1 /\ out = <<>> /\ n = 0 /\ status = "run"

\* str_find_aux
Start == LET i == PosRelat(job.init, Len(job.s)) IN IF i < 1 THEN 1 ELSE IF i > Len(job.s) THEN Len(job.s) + 1 ELSE i
Plain == job.op = "find" /\ \A k \in DOMAIN job.p : job.p[k] \notin Special
EndPlain(k) == IF k = 0 THEN Ended("none", <<>>) ELSE Ended("done", <<At(k), At(k + Len(job.p) - 1)>>)
EndWith(o) == IF FaultIn(o) THEN Ended("error", <<>>) ELSE Ended("done", o)
Indices(r) == IF job.op = "find" THEN <<At(r.ms.at), At(r.e - 1)>> ELSE <<>>
EndSearch(r) ==
  CASE r.ok = "no" -> Ended("none", <<>>)
    [] r.ok = "error" -> Ended("error", <<>>)
    [] r.ok = "yes" -> EndWith(Indices(r) \o Captures(job.s, r.ms.ms, job.op = "match", r.ms.at, r.e))
Find ==
  /\ status = "run" /\ job.op \in {"find", "match"}
  /\ IF Plain THEN EndPlain(PlainFind(job.s, Start, job.p)) ELSE EndSearch(Search(S, Start, Pat, Anchored(Pat)))

\* gmatch_aux: one call of the iterator.
Give(r, caps) ==
  IF FaultIn(caps) THEN Ended("error", <<>>)
  ELSE /\ out' = Append(out, caps) /\ n' = n + 1
       /\ src' = IF r.e = r.ms.at THEN r.e + 1 ELSE r.e
       /\ UNCHANGED <<job, status>>
GiveNext(r) ==
  CASE r.ok = "no" -> Ended("done", out)
    [] r.ok = "error" -> Ended("error", <<>>)
    [] r.ok = "yes" -> Give(r, Captures(job.s, r.ms.ms, TRUE, r.ms.at, r.e))
GMatch ==
  /\ status = "run" /\ job.op = "gmatch"
  /\ IF src > Len(S) THEN Ended("done", out) ELSE GiveNext(Search(S, src, Pat, FALSE))

\* add_s: the replacement, with %0 to %9.
AddS(news, ms, i, e) ==
  LET Add(a, k) ==
        IF a.esc THEN [esc |-> FALSE, text |-> CASE news[k] \notin Digit -> Append(a.text, news[k])
                                                 [] news[k] = "0" -> a.text \o SubSeq(job.s, i, e - 1)
                                                 [] OTHER -> a.text \o OneCapture(job.s, ms,
                                                      CHOOSE d \in DOMAIN Digits : Digits[d] = news[k], i, e)]
        ELSE [esc |-> news[k] = "%", text |-> IF news[k] = "%" THEN a.text ELSE Append(a.text, news[k])]
  IN FoldLeft(Add, [esc |-> FALSE, text |-> <<>>], [k \in DOMAIN news |-> k]).text

\* add_value: a table or function is asked for the first capture, and may
\* have no value for it.
AddValue(ms, i, e) ==
  LET key == OneCapture(job.s, ms, 1, i, e)
  IN IF job.repl.k = "string" THEN AddS(job.repl.v, ms, i, e)
     ELSE IF key = Fault \/ key \in DOMAIN job.repl.v THEN IF key = Fault THEN Fault ELSE job.repl.v[key]
     ELSE SubSeq(job.s, i, e - 1)

\* str_gsub: one turn of its loop.
Skipping(r) == IF r.ok = "yes" THEN r.e + 1 ELSE src + 1         \* mutant: a character is lost
Advanced(r) == IF r.ok = "yes" /\ r.e > src THEN r.e ELSE src + 1
Replaced(r) == IF r.ok = "yes" THEN AddValue(r.ms, src, r.e) ELSE <<>>
Moves(r) == r.ok = "yes" /\ r.e > src
Turn(count, v, next, skipped, over) ==
  IF \E k \in DOMAIN v : v[k] = "error" THEN Ended("error", <<>>)
  ELSE /\ src' = next /\ n' = count
       /\ out' = out \o v \o skipped \o IF over THEN SubSeq(job.s, next, Len(job.s)) ELSE <<>>
       /\ status' = IF over THEN "done" ELSE "run"
       /\ UNCHANGED job
SubstituteAt(r, count, last) ==
  Turn(count, Replaced(r), IF last THEN src ELSE Advanced(r), IF Moves(r) \/ last THEN <<>> ELSE <<S[src]>>,
       last \/ Anchored(Pat) \/ count >= job.max)
Substitute(r) ==
  IF r.ok = "error" THEN Ended("error", <<>>)
  ELSE SubstituteAt(r, IF r.ok = "yes" THEN n + 1 ELSE n, ~Moves(r) /\ src = Len(S))
GSub ==
  /\ status = "run" /\ job.op = "gsub"
  /\ IF n >= job.max THEN Ended("done", out \o SubSeq(job.s, src, Len(job.s)))
     ELSE Substitute(DoMatch(S, src, Pat, IF Anchored(Pat) THEN 2 ELSE 1, <<>>))

\* str_sub and str_byte: both clip the range to the string.
Sub ==
  /\ status = "run" /\ job.op = "sub"
  /\ LET i == PosRelat(job.init, Len(job.s))
         j == PosRelat(job.last, Len(job.s))
         first == IF i < 1 THEN 1 ELSE i
     IN Ended("done", IF first <= j THEN SubSeq(job.s, first, IF j > Len(job.s) THEN Len(job.s) ELSE j) ELSE <<>>)

Next == Find \/ GMatch \/ GSub \/ Sub
Spec == Init /\ [][Next]_vars /\ WF_vars(Next)
=============================================================================
