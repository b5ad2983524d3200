------------------------------ MODULE MCLibraries ------------------------------
(***************************************************************************)
(* The C libraries side by side: LPeg, the string library, the MIME        *)
(* filters, files, packages, and dates.  They share no state: a behaviour  *)
(* moves one of them (part), and the others stay in their first state, or  *)
(* empty where they have many.                                             *)
(***************************************************************************)
EXTENDS Lpeg, TLC

CONSTANTS Order, Alpha, Digit, MaxCaptures, Calls,          \* strings
          Filterings,                                       \* MIME
          Handles, Streams, MaxIterators,                   \* files
          PackNames, Root, Worlds, MaxObjects, MaxFailures,     \* packages
          LastYear, TimesOfDay, Zones                       \* dates

VARIABLES part,
          job, src, out, count, status,
          filtering, rest, ch, filtered, done, sunk, pump,
          handle, stream, held, default, iterators, called,
          world, loaded, globals, frames, library, objects, closing, runs, given, exposed, failures,
          today, days, dayOfYear, hms, timer, shift, stm, pc

Str == INSTANCE LuaPatterns WITH Jobs <- Calls, n <- count
Filter == INSTANCE Mime WITH Jobs <- Filterings, job <- filtering, out <- sunk, pc <- pump
Io == INSTANCE Files
Pack == INSTANCE Packages WITH Names <- PackNames
Date == INSTANCE Calendar

(***************************************************************************)
(* One part moves.                                                         *)
(***************************************************************************)
MCInit ==
  /\ part \in {"patterns", "strings", "filters", "files", "packages", "dates"}
  /\ IF part = "patterns" THEN Init ELSE expr = [t |-> "none"] /\ subject = <<>> /\ m = [status |-> "none"]
  /\ IF part = "strings" THEN Str!Init ELSE job = [op |-> "none"] /\ src = 1 /\ out = <<>> /\ count = 0 /\ status = "none"
  /\ IF part = "filters" THEN Filter!Init
     ELSE filtering = [text |-> <<>>] /\ rest = <<>> /\ ch = [top |-> 0] /\ filtered = <<>> /\ done = <<>> /\ sunk = <<>> /\ pump = "none"
  /\ IF part = "packages" THEN Pack!Init
     ELSE /\ world = [preload |-> {}] /\ loaded = <<>> /\ globals = <<>> /\ frames = <<>> /\ library = <<>> /\ objects = <<>>
          /\ closing = FALSE /\ runs = <<>> /\ given = <<>> /\ exposed = {} /\ failures = 0
  /\ Io!Init /\ Date!Init

\* What is not of p stays.
Still(p) ==
  /\ UNCHANGED part
  /\ IF p = "patterns" THEN TRUE ELSE UNCHANGED vars
  /\ IF p = "strings" THEN TRUE ELSE UNCHANGED <<job, src, out, count, status>>
  /\ IF p = "filters" THEN TRUE ELSE UNCHANGED <<filtering, rest, ch, filtered, done, sunk, pump>>
  /\ IF p = "files" THEN TRUE ELSE UNCHANGED <<handle, stream, held, default, iterators, called>>
  /\ IF p = "packages" THEN TRUE
     ELSE UNCHANGED <<world, loaded, globals, frames, library, objects, closing, runs, given, exposed, failures>>
  /\ IF p = "dates" THEN TRUE ELSE UNCHANGED <<today, days, dayOfYear, hms, timer, shift, stm, pc>>

Matching == part = "patterns" /\ Next /\ Still("patterns")
MCNext ==
  \/ Matching
  \/ part = "strings" /\ Str!Next /\ Still("strings")
  \/ part = "filters" /\ Filter!Next /\ Still("filters")
  \/ part = "files" /\ Io!Next /\ Still("files")
  \/ part = "packages" /\ Pack!Next /\ Still("packages")
  \/ part = "dates" /\ Date!Next /\ Still("dates")

all == <<part, vars, job, src, out, count, status, filtering, rest, ch, filtered, done, sunk, pump, handle, stream, held, default,
         iterators, called, world, loaded, globals, frames, library, objects, closing, runs, given, exposed, failures,
         today, days, dayOfYear, hms, timer, shift, stm, pc>>
MCSpec == MCInit /\ [][MCNext]_all /\ WF_all(Matching)

(***************************************************************************)
(* Properties of the parts.                                                *)
(***************************************************************************)
\* A pattern matches what its grammar means, and the machine's calls and choices end in order.
MatchesAsGrammar == part = "patterns" => MatchesGrammar /\ StackInStep

\* A pattern the verifier lets pass ends on every subject.
MatchEnds == <>(part = "patterns" => ~Running)

\* find, match, gmatch, gsub and sub give what the pattern and the range ask for.
StringsAsAsked == part = "strings" => Str!SearchesLeftmost /\ Str!ReplacesMatches /\ Str!SubClips

\* A text comes back from its encoding, its lines fit, and ends of line are canonical.
FiltersKeepText == part = "filters" => Filter!RoundTrips /\ Filter!LinesFit /\ Filter!CanonicalText

\* A stream is in one handle, used while it is open, and closed once, as it was opened.
StreamsOwned == [][part = "files" => Io!Handled /\ Io!OneHandle']_<<part, handle, stream, called>>

\* A module is loaded once, and its library stays while its functions are needed.
ModulesLoadOnce == part = "packages" => Pack!LoadsOnce /\ Pack!LibraryOutlives

\* Every day has its seconds, and a date comes back from its time, but on the last day of a leap year.
DatesInvert == part = "dates" => Date!CountsEveryDay /\ Date!DateInvertsTimeElse

\* Convert a time_t (UTC) to a tm structure in UTC time: on every day.
DatesAlwaysInvert == part = "dates" => Date!DateInvertsTime

(***************************************************************************)
(* LPeg.                                                                   *)
(***************************************************************************)
\* The patterns a program can write, up to a small depth.
Lit(s) == [t |-> "lit", s |-> s]
AnyN(n) == [t |-> "any", n |-> n]
Set(S) == [t |-> "set", set |-> S]
Seq2(l, r) == [t |-> "seq", l |-> l, r |-> r]
Or(l, r) == [t |-> "or", l |-> l, r |-> r]
Minus(l, r) == [t |-> "diff", l |-> l, r |-> r]
Not(l) == [t |-> "not", l |-> l]
Look(l) == [t |-> "and", l |-> l]
Star(l, n) == [t |-> "star", l |-> l, n |-> n]
C(kind, l, label) == [t |-> "cap", kind |-> kind, l |-> l, label |-> label]
Cp == [t |-> "position"]
Cc(vs) == [t |-> "const", label |-> vs]
Cb(name) == [t |-> "backref", label |-> <<name>>]
Cmt(l, f) == [t |-> "cmt", l |-> l, label |-> <<f>>]
Nm(x) == [v |-> "str", s |-> <<x>>]
V(name) == [t |-> "var", name |-> Nm(name)]
G(rules) == [t |-> "grammar", rules |-> [k \in DOMAIN rules |-> <<Nm(rules[k][1]), rules[k][2]>>]]

a == Lit(<<"a">>)
b == Lit(<<"b">>)
ab == Lit(<<"a", "b">>)
Flat == {a, ab, AnyN(1), AnyN(2), Set({"a", "b"})}
Cap1 == {C("simple", x, <<>>) : x \in {a, ab, AnyN(1)}} \cup {Seq2(x, Cp) : x \in {a, AnyN(2)}}
Loops == {Star(x, n) : x \in {a, ab}, n \in {0, 1}} \cup {Star(C("simple", a, <<>>), 0)}
Looks == {Not(x) : x \in {a, ab}} \cup {Look(x) : x \in {ab, C("simple", ab, <<>>)}} \cup {AnyN(-1), AnyN(-2)}
Parts == Flat \cup Cap1 \cup Loops \cup Looks \cup {[t |-> "bool", b |-> TRUE], [t |-> "bool", b |-> FALSE]}

Unions == {Or(Or(x, y), z) : x \in Flat \cup Cap1, y \in Flat \cup Cap1, z \in Flat \cup {Seq2(ab, Cp)}}
           \cup {Or(x, Or(y, z)) : x \in Flat, y \in Cap1, z \in {a, ab}}
           \cup {Or(Or(ab, b), Seq2(a, x)) : x \in {a, Cp}}
Seqs == {Seq2(x, y) : x \in Parts, y \in Parts} \cup {Minus(x, y) : x \in Flat \cup Cap1, y \in Flat \cup Cap1}
Repeats == {Seq2(Star(Or(x, y), n), z) : x \in Flat, y \in {b, ab}, n \in {-2, 0, 1}, z \in {ab, Seq2(Cp, a)}}
Groups == {C("group", Or(C("simple", a, <<>>), ab), <<Nm("k")>>), C("group", Star(Set({"a", "b"}), 0), <<Nm("k")>>)}
Kinds == {"simple", "table", "subst", "group"}
Inner == {Seq2(Cc(<<Nm("x"), Nm("y")>>), a), Seq2(C("group", a, <<Nm("k")>>), b),
          Star(Or(Seq2(a, Cc(<<Nm("x")>>)), C("simple", b, <<>>)), 0), Or(ab, C("subst", a, <<>>))}
Captured1 == {C(k, x, <<>>) : k \in Kinds, x \in Inner} \cup {C("function", x, <<Nm("f")>>) : x \in Inner}
               \cup {C("fold", Seq2(Cc(<<Nm("x")>>), x), <<Nm("f")>>) : x \in Inner}
               \cup {C(k, Seq2(C("simple", a, <<>>), Cp), <<>>) : k \in Kinds \ {"subst"}}
Backs == {Seq2(x, Seq2(y, Cb(Nm("k")))) : x \in Groups, y \in {AnyN(0), b} \cup {C("table", Seq2(z, b), <<>>) : z \in Groups}}
Timed == {Seq2(Cmt(x, Nm(f)), y) : x \in {a, Seq2(C("simple", a, <<>>), Cp), Star(a, 0)}, f \in {"yes", "no", "two"},
                                   y \in {AnyN(0), b, C("simple", b, <<>>)}}
           \cup {Or(Cmt(ab, Nm(f)), C("simple", a, <<>>)) : f \in {"no", "two"}}
           \cup {C(k, Seq2(a, Cmt(AnyN(1), Nm("two"))), <<>>) : k \in Kinds}
Grammars ==
  {G(<<<<"S", Or(Seq2(x, V("S")), y)>>>>) : x \in {a, Seq2(b, Cp), Not(b), Star(a, 0)}, y \in {b, AnyN(0), V("S")}}
  \cup {G(<<<<"S", Seq2(V("A"), x)>>, <<"A", Or(Seq2(a, Seq2(V(n), b)), y)>>>>) :
          x \in {AnyN(-1), AnyN(0), Cp}, n \in {"S", "A", "B"}, y \in {a, AnyN(0), C("simple", b, <<>>)}}
  \cup {G(<<<<"S", Star(V("A"), n)>>, <<"A", x>>>>) : n \in {0, 1, -2}, x \in {a, AnyN(0), Star(b, 0), Not(a), Seq2(V("B"), a)}}
  \cup {Seq2(a, G(<<<<"S", Or(Cc(<<Nm("x")>>), V("A"))>>, <<"A", Seq2(Cc(<<Nm("y")>>), a)>>>>)),
        G(<<<<"S", Star(Seq2(V("A"), Cc(<<Nm("x")>>)), 0)>>, <<"A", Seq2(a, Cc(<<Nm("y")>>))>>>>)}

MCPatterns == Unions \cup Seqs \cup Repeats \cup Captured1 \cup Backs \cup Timed \cup Grammars
MCSubjects == UNION {[1 .. n -> {"a", "b"}] : n \in 0 .. 3}
MCFunctions == [f \in {Nm("yes"), Nm("no"), Nm("two")} |-> [n \in 0 .. 4 |->
   CASE f = Nm("yes") -> <<>> [] f = Nm("no") -> <<"false">> [] OTHER -> <<Nm("x"), Nm("y")>>]]
MCFalsy == <<"false">>

(***************************************************************************)
(* Strings.                                                                *)
(***************************************************************************)
\* Items and their text.
One(text, set, rep) == [t |-> "one", text |-> text \o (IF rep = "" THEN <<>> ELSE <<rep>>), set |-> set, rep |-> rep]
Letters == {"a", "b"}
MCOrder == <<"-", "0", "1", "2", "]", "a", "b">>
Chars == {"a", "b", "1", "-"}
Reps == {"", "?", "*", "+", "-"}
Classes == {<<<<"a">>, {"a"}>>, <<<<".">>, Chars>>, <<<<"%", "a">>, Letters>>, <<<<"%", "D">>, Chars \ {"1"}>>,
            <<<<"[", "^", "a", "-", "]">>, Chars \ {"a", "-"}>>, <<<<"[", "1", "-", "a", "]">>, {"1", "a"}>>,
            <<<<"[", "]", "%", "a", "]">>, Letters>>, <<<<"%", "-">>, {"-"}>>}
Ones == {One(c[1], c[2], r) : c \in Classes, r \in Reps}
Few == {One(<<"a">>, {"a"}, r) : r \in {"", "*", "-"}} \cup {One(<<".">>, Chars, r) : r \in {"", "*", "-", "?"}}
Two == {One(<<"a">>, {"a"}, "?"), One(<<".">>, Chars, "-")}
StrOpen == [t |-> "open", text |-> <<"(">>]
StrClose == [t |-> "close", text |-> <<")">>]
Pos == [t |-> "position", text |-> <<"(", ")">>]
StrBack(d, x) == [t |-> "back", text |-> <<"%", x>>, n |-> d]
StrBalance(x, y) == [t |-> "balance", text |-> <<"%", "b", x, y>>, x |-> x, y |-> y]
Front1(text, set) == [t |-> "frontier", text |-> <<"%", "f">> \o text, set |-> set]
StrEnd == [t |-> "end", text |-> <<"$">>]
Marks == {StrOpen, StrClose, Pos, StrBack(1, "1"), StrBalance("a", "b"), StrBalance("a", "a"), Front1(<<"[", "%", "a", "]">>, Letters),
          Front1(<<"[", "^", "%", "a", "]">>, {"", "1", "-"})}

StrPatterns ==
  {<<x, y>> : x \in Ones, y \in Two}
  \cup {<<x, y, z>> : x \in Few, y \in Marks, z \in Two \cup {StrEnd}}
  \cup {<<StrOpen, x, StrClose, y, z>> : x \in Few, y \in Two, z \in {StrBack(1, "1"), Pos, StrEnd, StrBack(2, "2")}}
  \cup {<<StrOpen, x, StrOpen, y, StrClose, z>> : x \in Few, y \in Two, z \in {StrClose, StrBack(1, "1"), StrBack(2, "2")}}
  \cup {<<x>> : x \in Few \cup Marks} \cup {<<>>}

Long == <<"1", "a", "a", "-", "a">>
Strs == {<<>>, <<"a", "b", "a">>, Long}
ItemText(items) == FlattenSeq([k \in DOMAIN items |-> items[k].text])
Str1(raw, parts) == [k |-> "string", v |-> raw, parts |-> parts]
NoRepl == Str1(<<>>, <<>>)
Asked(op, s, items, anchor, init, last, repl, max) ==
  [op |-> op, s |-> s, p |-> (IF anchor THEN <<"^">> ELSE <<>>) \o ItemText(items), items |-> items, anchor |-> anchor,
   init |-> init, last |-> last, repl |-> repl, max |-> max]
Repl == Str1(<<"%", "0">>, <<"%0">>)
Repls == {Str1(<<"%", "0">>, <<"%0">>), Str1(<<"x", "%", "1", "%", "%">>, <<"x", "%1", "%">>), Str1(<<"%", "2">>, <<"%2">>)}
ReplTable == [k |-> "table", v |-> (<<"a">> :> <<"x", "y">>) @@ (<<>> :> <<"-">>)]

MCCalls ==
  {Asked("match", s, p, FALSE, 1, 0, NoRepl, 0) : s \in Strs, p \in StrPatterns}
  \cup {Asked("find", s, p, an, i, 0, NoRepl, 0) :
          s \in {<<"a", "b", "a">>, Long}, p \in {q \in StrPatterns : Len(q) <= 2 /\ q # <<StrClose>>}, an \in BOOLEAN, i \in {2, -2}}
  \cup {Asked("find", s, <<One(<<"a">>, {"a"}, ""), One(<<x>>, {x}, "")>>, FALSE, i, 0, NoRepl, 0) :
          s \in Strs, i \in -3 .. 8, x \in {"a", "b"}}
  \cup {Asked("gmatch", s, p, FALSE, 1, 0, NoRepl, 0) : s \in Strs, p \in StrPatterns}
  \cup {Asked("gsub", s, p, an, 1, 0, r, lim) : s \in {<<"a", "b", "a">>, Long}, p \in {q \in StrPatterns : Len(q) <= 3 /\ q # <<>>},
          an \in {FALSE}, r \in Repls \cup {ReplTable}, lim \in {9}}
  \cup {Asked("gsub", Long, p, an, 1, 0, Repl, lim) : p \in {q \in StrPatterns : Len(q) = 2}, an \in BOOLEAN, lim \in {0, 1}}
  \cup {Asked("sub", s, <<>>, FALSE, i, j, NoRepl, 0) : s \in Strs, i \in -7 .. 7, j \in -7 .. 7}

(***************************************************************************)
(* MIME filters.                                                           *)
(***************************************************************************)
BytesOf(bytes, n) == UNION {[1 .. k -> bytes] : k \in 0 .. n}
Fl(f, extra) == [f |-> f, extra |-> extra]
Binary == <<61, 48, 68, 61, 48, 65>>          \* =0D=0A

MCFilterings ==
  [text : BytesOf({0, 7, 250}, 4), filters : {<<Fl("b64", 0), Fl("unb64", 0)>>, <<Fl("b64", 0), Fl("wrp", 3), Fl("unb64", 0)>>,
                                            <<Fl("b64", 0), Fl("wrp", 3)>>}]
  \cup [text : BytesOf({13, 10, 32, 61, 65}, 4), filters : {<<Fl("qp", <<13, 10>>), Fl("unqp", 0)>>, <<Fl("qp", <<13, 10>>), Fl("qpwrp", 5), Fl("unqp", 0)>>,
                                                   <<Fl("qp", <<13, 10>>), Fl("qpwrp", 5)>>}]
  \cup [text : BytesOf({13, 10, 32, 65}, 3), filters : {<<Fl("qp", Binary), Fl("qpwrp", 4), Fl("unqp", 0)>>}]
  \cup [text : BytesOf({13, 10, 46, 65}, 5), filters : {<<Fl("eol", <<13, 10>>), Fl("dot", 0)>>}]

(***************************************************************************)
(* Packages and time zones.                                                *)
(***************************************************************************)
MCPackNames == {"a", "a.b", "c"}
MCRoot == [n \in MCPackNames |-> IF n = "a.b" THEN "a" ELSE n]
Syms(p, q, r) == [n \in MCPackNames |-> CASE n = "a" -> p [] n = "a.b" -> q [] n = "c" -> r]
MCWorlds == {
  [preload |-> {}, lua |-> {"a", "c"}, bad |-> {}, c |-> {}, symbols |-> Syms({}, {}, {})],
  [preload |-> {"c"}, lua |-> {"a"}, bad |-> {"a"}, c |-> {}, symbols |-> Syms({}, {}, {})],
  [preload |-> {}, lua |-> {"c"}, bad |-> {}, c |-> {"a", "c"}, symbols |-> Syms({"a", "a.b"}, {}, {})],
  [preload |-> {}, lua |-> {}, bad |-> {}, c |-> {"a", "a.b"}, symbols |-> Syms({"a"}, {"a.b"}, {})],
  [preload |-> {}, lua |-> {}, bad |-> {"c"}, c |-> {"a", "c"}, symbols |-> Syms({"a"}, {}, {})]}
MCZones == {[id |-> "daylight", bias |-> -60, daylightBias |-> -60], [id |-> "standard", bias |-> 300, daylightBias |-> -60]}
================================================================================
