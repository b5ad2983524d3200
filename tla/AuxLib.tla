--------------------------------- MODULE AuxLib ---------------------------------
(***************************************************************************)
(* The two services of lauxlib.c every C library leans on: the string      *)
(* buffers, which keep what was added partly in a C array and partly as    *)
(* strings on the Lua stack, and the references, integer keys of a table   *)
(* whose free ones form a list inside the table itself.                    *)
(*                                                                         *)
(* The characters added to the buffer are numbered 1, 2, ...: a lost, a    *)
(* repeated or a misplaced one shows.                                      *)
(***************************************************************************)
EXTENDS Integers, Sequences, SequencesExt

CONSTANTS BufferSize,  \* LUAL_BUFFERSIZE
          Limit,       \* LUA_MINSTACK / 2
          Sizes,       \* how much one call adds
          MaxAdded,    \* bound: characters of one buffer
          Values,      \* what is referred to
          MaxRef       \* bound: references in the table

VARIABLES lvl, stack, buffer, added,   \* a luaL_Buffer, the strings on the stack, and what it should hold
          result,                      \* what luaL_pushresult left
          t, live                      \* the table of references, and those in use with their values

bufferVars == <<lvl, stack, buffer, added, result>>
refVars == <<t, live>>
vars == <<lvl, stack, buffer, added, result, t, live>>

B == [lvl |-> lvl, stack |-> stack, p |-> buffer]
Free(b) == BufferSize - Len(b.p)

Emptied(b) == IF b.p = <<>> THEN b ELSE [lvl |-> b.lvl + 1, stack |-> Append(b.stack, b.p), p |-> <<>>]

\* The top n strings of the stack become one.
Concat(s, n) == Append(SubSeq(s, 1, Len(s) - n), FlattenSeq(SubSeq(s, Len(s) - n + 1, Len(s))))

\* How many of the top strings are concatenated: until the level is below the limit
\* and the next string is at least as long as what was gathered.
ToGet(b) ==
  LET Gathered(n) == Len(FlattenSeq(SubSeq(b.stack, Len(b.stack) - n + 1, Len(b.stack))))
      GoesOn(n) == n < b.lvl /\ (b.lvl - n + 1 >= Limit \/ Gathered(n) > Len(b.stack[Len(b.stack) - n]))
  IN CHOOSE n \in 1 .. b.lvl : ~GoesOn(n) /\ \A m \in 1 .. n - 1 : GoesOn(m)
NeverAdjusted(b) == b
Adjusted(b) == IF b.lvl > 1 THEN [b EXCEPT !.stack = Concat(@, ToGet(b)), !.lvl = @ - ToGet(b) + 1] ELSE b

Prepared(b) == IF b.p = <<>> THEN b ELSE Adjusted(Emptied(b))
AddChar(b, c) == LET room == IF Free(b) > 0 THEN b ELSE Prepared(b) IN [room EXCEPT !.p = Append(@, c)]
AddLString(b, s) == FoldLeft(AddChar, b, s)

\* luaL_addvalue: the string is on the top of the stack.  OnTop forgets lua_insert.
OnTop(b, s) == LET e == Emptied(b) IN [e EXCEPT !.stack = Append(SubSeq(@, 1, b.lvl), s) \o SubSeq(@, b.lvl + 1, e.lvl)]
Below(b, s) == LET e == Emptied(b) IN [e EXCEPT !.stack = Append(@, s)]
AddValue(b, s) ==
  IF Len(s) <= Free(b) THEN [b EXCEPT !.p = @ \o s]
  ELSE LET v == Below(b, s) IN Adjusted([v EXCEPT !.lvl = @ + 1])

Coming(n) == [i \in 1 .. n |-> added + i]                 \* the next n characters
Becomes(b, n) ==
  /\ lvl' = b.lvl /\ stack' = b.stack /\ buffer' = b.p
  /\ added' = added + n /\ UNCHANGED <<result, refVars>>

Add ==
  \E n \in Sizes :
    /\ added + n <= MaxAdded /\ result = <<>>
    /\ \/ Becomes(AddLString(B, Coming(n)), n)
       \/ Becomes(AddValue(B, Coming(n)), n)
       \/ n <= BufferSize /\ Becomes([Prepared(B) EXCEPT !.p = Coming(n)], n)    \* luaL_prepbuffer, luaL_addsize

PushResult ==
  LET e == Emptied(B)
  IN /\ result = <<>> /\ added > 0
     /\ stack' = Concat(e.stack, e.lvl) /\ lvl' = 1 /\ buffer' = <<>>
     /\ result' = stack'[1] /\ UNCHANGED <<added, refVars>>

(***************************************************************************)
(* References: t[0] heads the list of the free ones.                       *)
(***************************************************************************)
RefNil == -1
FreeListRef == 0
ObjLen == Len(t) - 1                                     \* t is <<t[0], t[1], ...>>
At(r) == t[r + 1]
Set(s, r, v) == IF r + 1 > Len(s) THEN Append(s, v) ELSE [s EXCEPT ![r + 1] = v]
FirstFree(s) == s[1].link
Link(r) == [link |-> r, v |-> "free"]
Holds(v) == [link |-> 0, v |-> v]
KeptList(ref) == t
Unlinked(ref) == Set(t, FreeListRef, At(ref))
Ref ==
  \E v \in Values :
    LET ref == IF FirstFree(t) # 0 THEN FirstFree(t) ELSE ObjLen + 1
    IN /\ ref <= MaxRef
       /\ t' = Set(IF FirstFree(t) # 0 THEN Unlinked(ref) ELSE t, ref, Holds(v))
       /\ live' = live \cup {[ref |-> ref, v |-> v]}
       /\ UNCHANGED bufferVars
\* The caller gives back a reference it has, once; or LUA_REFNIL, LUA_NOREF, which are ignored.
Unref ==
  \/ /\ \E r \in live : /\ t' = Set(Set(t, r.ref, t[1]), FreeListRef, Link(r.ref))
                        /\ live' = live \ {r}
     /\ UNCHANGED bufferVars
  \/ UNCHANGED vars

Init ==
  /\ lvl = 0 /\ stack = <<>> /\ buffer = <<>> /\ added = 0 /\ result = <<>>
  /\ t = <<Link(0)>> /\ live = {}
Next == Add \/ PushResult \/ Ref \/ Unref
Spec == Init /\ [][Next]_vars

(***************************************************************************)
(* Properties.                                                             *)
(***************************************************************************)
\* A buffer holds everything added to it, in order, and takes at most LIMIT slots of
\* the stack however much is added: the caller made room for LUA_MINSTACK only.
BufferHolds ==
  /\ lvl = Len(stack) /\ Len(buffer) <= BufferSize
  /\ FlattenSeq(stack) \o buffer = [i \in 1 .. added |-> i]
  /\ lvl < Limit
  /\ result # <<>> => result = [i \in 1 .. added |-> i]

\* No two references in use are the same, each still holds what was given to luaL_ref,
\* and every other key of the table is in the free list: none is lost.
RECURSIVE ListFrom(_, _)
ListFrom(r, n) == IF r = 0 \/ n = 0 THEN <<>> ELSE <<r>> \o ListFrom(At(r).link, n - 1)
FreeList == ListFrom(FirstFree(t), MaxRef + 1)
RefsHold ==
  /\ \A r \in live : At(r.ref).v = r.v
  /\ \A r, s \in live : r.ref = s.ref => r = s
  /\ IsInjective(FreeList)
  /\ Len(FreeList) + Cardinality({r.ref : r \in live}) = ObjLen
  /\ \A r \in live : ~Contains(FreeList, r.ref)

=============================================================================
