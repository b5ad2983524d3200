------------------------------ MODULE LuaPatterns ------------------------------
(***************************************************************************)
(* What a pattern of Lua 5.1 matches, and what the functions of the string *)
(* library promise of its matches.                                         *)
(*                                                                         *)
(* A pattern is a sequence of items: the text of job.p is that of its      *)
(* items.  An item for one character has the set of characters it accepts  *)
(* and how often it may repeat.                                            *)
(***************************************************************************)
EXTENDS LuaStrings

Outcome(e, caps) == [e |-> e, caps |-> caps]
Failure == Outcome(0, <<>>)

\* The ends of an item for one character, the preferred ones first.
Ends(item, s, i) ==
  LET Fits(k) == i + k - 1 <= Len(s) /\ \A m \in 0 .. k - 1 : s[i + m] \in item.set
      run == CHOOSE k \in 0 .. Len(s) : Fits(k) /\ ~Fits(k + 1)
      Down(k, l) == [m \in 1 .. (IF k >= l THEN k - l + 1 ELSE 0) |-> i + k - m + 1]
  IN CASE item.rep = "" -> IF run > 0 THEN <<i + 1>> ELSE <<>>
       [] item.rep = "?" -> IF run > 0 THEN <<i + 1, i>> ELSE <<i>>
       [] item.rep = "*" -> Down(run, 0)
       [] item.rep = "+" -> Down(run, 1)
       [] item.rep = "-" -> Reverse(Down(run, 0))

\* Where the text that opens with x at i and is closed by y ends.
Balanced(s, i, x, y) ==
  LET Count(ch, k) == Cardinality({m \in i .. k : s[m] = ch})
      Closed(k) == s[k] = y /\ IF x = y THEN k > i ELSE Count(x, k) = Count(y, k)
  IN IF i > Len(s) \/ (i <= Len(s) /\ s[i] # x) THEN {}
     ELSE {k + 1 : k \in {k \in i .. Len(s) : Closed(k) /\ ~\E m \in i .. k - 1 : Closed(m)}}

CharAt(s, i) == IF i \in DOMAIN s THEN s[i] ELSE Nul

\* Every way to match the items from the k-th on at i, in order of preference.
RECURSIVE Ways(_, _, _, _, _)
Ways(items, k, s, i, caps) ==
  LET item == items[k]
      On(j, cs) == Ways(items, k + 1, s, j, cs)
      open == {l \in DOMAIN caps : caps[l].to = 0}
      c == caps[item.n]
      text == SubSeq(s, c.from, c.to - 1)
      e == i + Len(text)
  IN CASE k > Len(items) -> <<Outcome(i, caps)>>
       [] k <= Len(items) /\ item.t = "one" ->
            FlattenSeq([m \in DOMAIN Ends(item, s, i) |-> On(Ends(item, s, i)[m], caps)])
       [] k <= Len(items) /\ item.t \in {"open", "position"} ->
            IF Len(caps) = MaxCaptures THEN <<Failure>>
            ELSE On(i, Append(caps, [from |-> i, to |-> IF item.t = "open" THEN 0 ELSE -1]))
       [] k <= Len(items) /\ item.t = "close" ->
            IF open = {} THEN <<Failure>>
            ELSE On(i, [caps EXCEPT ![CHOOSE l \in open : \A m \in open : m <= l].to = i])
       [] k <= Len(items) /\ item.t = "back" ->
            IF item.n \notin DOMAIN caps \ open THEN <<Failure>>
            ELSE IF c.to # -1 /\ e <= Len(s) + 1 /\ SubSeq(s, i, e - 1) = text THEN On(e, caps) ELSE <<>>
       [] k <= Len(items) /\ item.t = "balance" ->
            FlattenSeq(SetToSeq({On(j, caps) : j \in Balanced(s, i, item.x, item.y)}))
       [] k <= Len(items) /\ item.t = "frontier" ->
            IF CharAt(s, i - 1) \notin item.set /\ CharAt(s, i) \in item.set THEN On(i, caps) ELSE <<>>
       [] k <= Len(items) /\ item.t = "end" -> IF i = Len(s) + 1 THEN On(i, caps) ELSE <<>>

\* The first match that starts at one of the given places.
FirstOf(found) ==
  IF found = {} THEN <<>>
  ELSE LET m == CHOOSE x \in found : \A y \in found : x.at <= y.at
       IN <<[at |-> m.at, e |-> m.ways[1].e, caps |-> m.ways[1].caps]>>
Leftmost(s, items, starts) ==
  FirstOf({m \in {[at |-> i, ways |-> Ways(items, 1, s, i, <<>>)] : i \in starts} : m.ways # <<>>})

RECURSIVE Matches(_, _, _)
MatchesOn(m, s, items) ==
  IF m = <<>> \/ (m # <<>> /\ m[1].e = 0) THEN m
  ELSE m \o Matches(s, items, IF m[1].e = m[1].at THEN m[1].e + 1 ELSE m[1].e)
Matches(s, items, i) == MatchesOn(Leftmost(s, items, i .. Len(s) + 1), s, items)

Value(s, c) == CASE c.to = 0 -> Fault [] c.to = -1 -> At(c.from) [] OTHER -> SubSeq(s, c.from, c.to - 1)
Whole(s, m) == SubSeq(s, m.at, m.e - 1)
Values(s, m) == [l \in DOMAIN m.caps |-> Value(s, m.caps[l])]
ValuesOr(s, m) == IF m.caps = <<>> THEN <<Whole(s, m)>> ELSE Values(s, m)
Faulty(s, m) == m.e = 0 \/ Fault \in ToSet(Values(s, m))

(***************************************************************************)
(* Properties.                                                             *)
(***************************************************************************)
Over == status # "run"
Items == job.items

FindRight(m) ==
  CASE m = <<>> -> status = "none"
    [] m # <<>> /\ Faulty(job.s, m[1]) -> status = "error"
    [] OTHER -> /\ status = "done"
                /\ out = IF job.op = "match" THEN ValuesOr(job.s, m[1])
                         ELSE <<At(m[1].at), At(m[1].e - 1)>> \o Values(job.s, m[1])
GMatchRight(all) ==
  IF \E k \in DOMAIN all : Faulty(job.s, all[k]) THEN status = "error"
  ELSE status = "done" /\ out = [k \in DOMAIN all |-> ValuesOr(job.s, all[k])]

\* find and match give the leftmost match from init on and, of those that start
\* there, the one its repetitions prefer; gmatch gives them all, none of which
\* overlap, and the same captures.
SearchesLeftmost ==
  /\ Over /\ job.op \in {"find", "match"} =>
       FindRight(Leftmost(job.s, Items, IF job.anchor THEN {Start} ELSE Start .. Len(job.s) + 1))
  /\ Over /\ job.op = "gmatch" => GMatchRight(Matches(job.s, Items, 1))

Replacement(s, m) ==
  LET key == ValuesOr(s, m)[1]
      Part(x) == CASE x = "%0" -> Whole(s, m)
                   [] x = "%1" -> IF m.caps = <<>> THEN Whole(s, m) ELSE Value(s, m.caps[1])
                   [] x = "%2" -> IF Len(m.caps) < 2 THEN Fault ELSE Value(s, m.caps[2])
                   [] OTHER -> <<x>>
  IN IF job.repl.k = "string" THEN FlattenSeq([k \in DOMAIN job.repl.parts |-> Part(job.repl.parts[k])])
     ELSE IF key \in DOMAIN job.repl.v THEN job.repl.v[key] ELSE Whole(s, m)

ToReplace == IF job.anchor THEN Leftmost(job.s, Items, {1}) ELSE Matches(job.s, Items, 1)
Used(all) == SubSeq(all, 1, IF Len(all) < job.max THEN Len(all) ELSE job.max)
Bad(m) == \/ m.e = 0 \/ "error" \in ToSet(Replacement(job.s, m))
          \/ job.repl.k = "table" /\ ValuesOr(job.s, m)[1] = Fault
JoinMatch(a, m) == [text |-> a.text \o SubSeq(job.s, a.from, m.at - 1) \o Replacement(job.s, m), from |-> m.e]
EndsAs(r) == out = r.text \o SubSeq(job.s, r.from, Len(job.s))
GSubRight(used) ==
  IF \E k \in DOMAIN used : Bad(used[k]) THEN status = "error"
  ELSE status = "done" /\ n = Len(used) /\ EndsAs(FoldLeft(JoinMatch, [text |-> <<>>, from |-> 1], used))
\* gsub replaces exactly those matches (the first max of them), and keeps all the
\* text between them.
ReplacesMatches == Over /\ job.op = "gsub" => GSubRight(Used(ToReplace))

\* sub gives the characters whose index, from the front or from the end, is in
\* the range asked for.
SubClips ==
  LET len == Len(job.s)
      Index(k) == IF k < 0 THEN len + k + 1 ELSE k
      asked == {k \in 1 .. len : Index(job.init) <= k /\ k <= Index(job.last)}
  IN Over /\ job.op = "sub" =>
       /\ Len(out) = Cardinality(asked)
       /\ \A k \in asked : out[Cardinality({x \in asked : x <= k})] = job.s[k]
=============================================================================
