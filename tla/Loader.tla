--------------------------------- MODULE Loader ---------------------------------
(***************************************************************************)
(* Saving and loading compiled functions: string.dump through ldump.c to a *)
(* writer, and lua_load through a reader that gives the bytes in pieces    *)
(* (lzio.c), from a file whose first line may be a comment                 *)
(* (luaL_loadfile), to lundump.c.                                          *)
(*                                                                         *)
(* A byte of a value of size n is <<value, k>>, its k-th; so what is read  *)
(* with another size or at another place is garbage.  A size_t and an int  *)
(* have the same size on the platform, and so are one.                     *)
(***************************************************************************)
EXTENDS Integers, Sequences, SequencesExt

CONSTANTS Protos,      \* functions to dump
          IntSize, NumberSize, InstructionSize,
          Files        \* what surrounds the dump in a file: comment line before, bytes after

VARIABLES job,         \* function, strip, file; where the writer fails, where the file is cut
          file, pc, pieces, result

vars == <<job, file, pc, pieces, result>>

Signature == 27
Comment == 35
NewL == 10
Chr(c) == [tag |-> "char", v |-> c]
IntOf(n) == [tag |-> "int", v |-> n]
NumOf(n) == [tag |-> "number", v |-> n]
Ins(i) == [tag |-> "code", v |-> i]
SizeOf(x) == CASE x.tag = "char" -> 1 [] x.tag = "int" -> IntSize [] x.tag = "number" -> NumberSize [] x.tag = "code" -> InstructionSize
Bytes(x) == [k \in 1 .. SizeOf(x) |-> <<x, k>>]
Nul == Chr(0)
None == <<-1>>                                           \* no string
Header == <<Signature, 76, 117, 97, 81, 0, 1, IntSize, IntSize, InstructionSize, NumberSize, 0>>

(***************************************************************************)
(* ldump.c: the values written, in order; a block is what one call of the  *)
(* writer is given.                                                        *)
(***************************************************************************)
Var(x) == <<Bytes(x)>>
Block(xs) == <<FlattenSeq([i \in DOMAIN xs |-> Bytes(xs[i])])>>
DumpVector(n, xs) == Var(IntOf(n)) \o Block(xs)
DumpString(s) == IF s = None THEN Var(IntOf(0))
                 ELSE Var(IntOf(Len(s) + 1)) \o Block(Append([i \in DOMAIN s |-> Chr(s[i])], Nul))
DumpConstant(o) ==
  Var(Chr(o.type)) \o (CASE o.type = 0 -> <<>> [] o.type = 1 -> Var(Chr(o.b)) [] o.type = 3 -> Var(NumOf(o.n))
                         [] o.type = 4 -> DumpString(o.s))
Kept(xs, strip) == IF strip THEN <<>> ELSE xs
DumpDebug(f, strip) ==
  LET lines == Kept(f.lineinfo, strip)
      locvars == Kept(f.locvars, strip)
      upvalues == Kept(f.upvalues, strip)
      Local(l) == DumpString(l.name) \o Var(IntOf(l.start)) \o Var(IntOf(l.end))
  IN DumpVector(Len(lines), [i \in DOMAIN lines |-> IntOf(lines[i])])
     \o Var(IntOf(Len(locvars))) \o FlattenSeq([i \in DOMAIN locvars |-> Local(locvars[i])])
     \o Var(IntOf(Len(upvalues))) \o FlattenSeq([i \in DOMAIN upvalues |-> DumpString(upvalues[i])])

SourceOf(f, p, strip) == IF f.source = p \/ strip THEN None ELSE f.source
RECURSIVE DumpFunction(_, _, _)
DumpFunction(f, p, strip) ==
  DumpString(SourceOf(f, p, strip))
  \o Var(IntOf(f.line)) \o Var(IntOf(f.last))
  \o Var(Chr(f.nups)) \o Var(Chr(f.numparams)) \o Var(Chr(f.vararg)) \o Var(Chr(f.stack))
  \o DumpVector(Len(f.code), [i \in DOMAIN f.code |-> Ins(f.code[i])])
  \o Var(IntOf(Len(f.k))) \o FlattenSeq([i \in DOMAIN f.k |-> DumpConstant(f.k[i])])
  \o Var(IntOf(Len(f.p))) \o FlattenSeq([i \in DOMAIN f.p |-> DumpFunction(f.p[i], f.source, strip)])
  \o DumpDebug(f, strip)
Dumped(f, strip) == Block([i \in DOMAIN Header |-> Chr(Header[i])]) \o DumpFunction(f, None, strip)

(***************************************************************************)
(* lzio.c: z holds the pieces not read yet, the first the current one, and *)
(* what was read; missing, whether the end came first.                     *)
(***************************************************************************)
Ends(z) == z.pieces = <<>> \/ Head(z.pieces) = <<>>      \* the reader's empty piece is the end
Ok(z) == ~z.missing
RECURSIVE LuaZRead(_, _)
LuaZRead(z, n) ==
  LET piece == Head(z.pieces)
      m == IF n < Len(piece) THEN n ELSE Len(piece)
      rest == SubSeq(piece, m + 1, Len(piece))
  IN IF n = 0 THEN z
     ELSE IF Ends(z) THEN [z EXCEPT !.missing = TRUE]
     ELSE LuaZRead([z EXCEPT !.pieces = IF rest = <<>> THEN Tail(@) ELSE <<rest>> \o Tail(@),
                             !.got = @ \o SubSeq(piece, 1, m)], n - m)

(***************************************************************************)
(* lundump.c: a loader takes z to [z, v]; v of a missing block is garbage, *)
(* which nothing is done with, because the error has been raised.          *)
(***************************************************************************)
Garbage == -7
R(z, v) == [z |-> z, v |-> v]
Fresh(z) == [z EXCEPT !.got = <<>>]
LoadBlock(z, n) == IF Ok(z) THEN LuaZRead(Fresh(z), n) ELSE z
Whole(bytes) == bytes # <<>> /\ \A k \in DOMAIN bytes : bytes[k] = <<bytes[1][1], k>>
ValueOf(z, tag) == R(z, IF Ok(z) /\ Whole(z.got) /\ z.got[1][1].tag = tag THEN z.got[1][1].v ELSE Garbage)
LoadChar(z) == ValueOf(LoadBlock(z, 1), "char")
LoadInt(z) == ValueOf(LoadBlock(z, IntSize), "int")
LoadNumber(z) == ValueOf(LoadBlock(z, NumberSize), "number")
LoadInstruction(z) == ValueOf(LoadBlock(z, InstructionSize), "code")

\* n, read before, of what Load reads, as a sequence.
AddTo(vs, r) == R(r.z, Append(vs, r.v))
Loaded(n, Load(_)) ==
  FoldLeft(LAMBDA a, i : AddTo(a.v, Load(a.z)), R(n.z, <<>>), [i \in 1 .. (IF n.v > 0 THEN n.v ELSE 0) |-> i])
LoadVector(z, Load(_)) == Loaded(LoadInt(z), Load)
WithoutNul(r) == R(r.z, SubSeq(r.v, 1, Len(r.v) - 1))
StringOf(size) == IF size.v \in {0, Garbage} THEN R(size.z, None) ELSE WithoutNul(Loaded(size, LoadChar))
LoadString(z) == StringOf(LoadInt(z))

Nil == [type |-> 0, b |-> 0, n |-> 0, s |-> None]
ConstantOf(t) ==
  CASE t.v = 0 -> R(t.z, Nil)
    [] t.v = 1 -> LET b == LoadChar(t.z) IN R(b.z, [Nil EXCEPT !.type = 1, !.b = b.v])
    [] t.v = 3 -> LET n == LoadNumber(t.z) IN R(n.z, [Nil EXCEPT !.type = 3, !.n = n.v])
    [] t.v = 4 -> LET s == LoadString(t.z) IN R(s.z, [Nil EXCEPT !.type = 4, !.s = s.v])
    [] OTHER -> R([t.z EXCEPT !.missing = TRUE], Nil)                           \* bad constant
LoadConstant(z) == ConstantOf(LoadChar(z))

\* The fields of a structure, in the order they are read.
Field(f, name, r) == R(r.z, [f EXCEPT ![name] = r.v])
LocalFields == <<"name", "start", "end">>
LoadLocal(z) ==
  FoldLeft(LAMBDA r, x : Field(r.v, x, IF x = "name" THEN LoadString(r.z) ELSE LoadInt(r.z)),
           R(z, [x \in {"name", "start", "end"} |-> None]), LocalFields)

Fields == <<"source", "line", "last", "nups", "numparams", "vararg", "stack", "code", "k", "p",
            "lineinfo", "locvars", "upvalues">>
OwnSource(r, p) == IF r.v = None THEN R(r.z, p) ELSE r
RECURSIVE LoadFunction(_, _)
LoadField(z, x, source) ==
  CASE x = "source" -> OwnSource(LoadString(z), source)
    [] x \in {"line", "last"} -> LoadInt(z)
    [] x \in {"nups", "numparams", "vararg", "stack"} -> LoadChar(z)
    [] x = "code" -> LoadVector(z, LoadInstruction)
    [] x = "k" -> LoadVector(z, LoadConstant)
    [] x = "p" -> LoadVector(z, LAMBDA y : LoadFunction(y, source))
    [] x = "lineinfo" -> LoadVector(z, LoadInt)
    [] x = "locvars" -> LoadVector(z, LoadLocal)
    [] x = "upvalues" -> LoadVector(z, LoadString)
LoadFunction(z, p) ==
  IF ~Ok(z) THEN R(z, Garbage)
  ELSE FoldLeft(LAMBDA r, x : Field(r.v, x, LoadField(r.z, x, r.v.source)),
                R(z, [x \in ToSet(Fields) |-> p]), Fields)

Failed(why) == [ok |-> FALSE, why |-> why, f |-> <<>>]
Whether(r) == IF Ok(r.z) THEN [ok |-> TRUE, why |-> "", f |-> <<r.v>>] ELSE Failed("unexpected end")
AfterHeader(h) ==
  IF ~Ok(h) THEN Failed("unexpected end")
  ELSE IF h.got # Block([i \in DOMAIN Header |-> Chr(Header[i])])[1] THEN Failed("bad header")
  ELSE Whether(LoadFunction(h, <<61, 63>>))                                     \* =?
Undump(ps) == AfterHeader(LoadBlock([pieces |-> ps, got |-> <<>>, missing |-> FALSE], Len(Header)))

(***************************************************************************)
(* luaL_loadfile.                                                          *)
(***************************************************************************)
Is(byte, c) == byte[1] = Chr(c)
From(s, i) == SubSeq(s, i, Len(s))
IndexWhere(s, Test(_)) == SelectInSeq(s, Test)
AfterLine(s) == LET n == IndexWhere(s, LAMBDA x : Is(x, NewL)) IN IF n = 0 THEN <<>> ELSE From(s, n + 1)
ToSignature(s) == LET n == IndexWhere(s, LAMBDA x : Is(x, Signature)) IN IF n = 0 THEN <<>> ELSE From(s, n)
ExtraLine(s, rest) == IF rest # s THEN <<<<Chr(NewL), 1>>>> \o rest ELSE rest
SkippedOnce(s) == ExtraLine(s, IF s # <<>> /\ Is(s[1], Comment) THEN AfterLine(s) ELSE s)
Skipped(s) ==          \* what lua_load is given of the file; the line is kept for a text
  LET rest == IF s # <<>> /\ Is(s[1], Comment) THEN AfterLine(s) ELSE s
  IN IF rest # <<>> /\ Is(rest[1], Signature) THEN ToSignature(s)
     ELSE ExtraLine(s, rest)

(***************************************************************************)
(* A function is dumped, its file cut or not, and loaded.                  *)
(***************************************************************************)
Init ==
  /\ job \in [f : Protos, strip : BOOLEAN, around : Files]
  /\ file = <<>> /\ pc = "dump" /\ pieces = <<>> /\ result = Failed("not loaded")

\* The writer is called with each block; after its first error, no more.
Blocks == Dumped(job.f, job.strip)
Written(n) == FlattenSeq(SubSeq(Blocks, 1, n))
Dump ==
  /\ pc = "dump"
  /\ \E n \in 0 .. Len(Blocks) : file' = job.around.before \o Written(n) \o (IF n = Len(Blocks) THEN job.around.after ELSE <<>>)
  /\ pc' = "read" /\ UNCHANGED <<job, pieces, result>>

\* The reader: pieces of the file, of any size, and the end.
Read ==
  /\ pc = "read"
  /\ \E size \in {1, 2, 7, Len(file) + 1} :
       LET s == Skipped(file)
           n == (Len(s) + size - 1) \div size
       IN pieces' = [i \in 1 .. n |-> SubSeq(s, (i - 1) * size + 1, IF i * size < Len(s) THEN i * size ELSE Len(s))]
  /\ pc' = "load" /\ UNCHANGED <<job, file, result>>

\* f_parser: the first byte says what it is.
Load ==
  /\ pc = "load"
  /\ result' = IF pieces # <<>> /\ Is(pieces[1][1], Signature) THEN Undump(pieces) ELSE Failed("a text")
  /\ pc' = "done" /\ UNCHANGED <<job, file, pieces>>

Next == Dump \/ Read \/ Load
Spec == Init /\ [][Next]_vars

(***************************************************************************)
(* Properties.                                                             *)
(***************************************************************************)
RECURSIVE Stripped(_, _)
Stripped(f, strip) ==
  IF ~strip THEN [f EXCEPT !.p = [i \in DOMAIN @ |-> Stripped(@[i], FALSE)]]
  ELSE [f EXCEPT !.source = <<61, 63>>, !.lineinfo = <<>>, !.locvars = <<>>, !.upvalues = <<>>,
                 !.p = [i \in DOMAIN @ |-> Stripped(@[i], TRUE)]]

\* A function that was dumped whole is loaded as it was, but for the debug
\* information stripped, in whatever pieces the reader gives it and whatever comes
\* before and after it in the file; one that was not is refused.
LoadsWhatWasDumped ==
  pc = "done" =>
    IF Len(file) >= Len(job.around.before \o FlattenSeq(Blocks)) THEN result = [ok |-> TRUE, why |-> "", f |-> <<Stripped(job.f, job.strip)>>]
    ELSE ~result.ok
=============================================================================
