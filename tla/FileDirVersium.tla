--------------------------- MODULE FileDirVersium ---------------------------
(***************************************************************************)
(* Versium's storage in a directory tree (versium/filedir.lua), and the    *)
(* histories Saci and Sputnik make of it.                                  *)
(*                                                                         *)
(* A node is a directory, named for its id, with a file for each version   *)
(* and an index, the newest entry first.  Every application state has a    *)
(* store of its own over the same directory, which remembers the nodes it  *)
(* knows to exist.                                                         *)
(* All of them run in one process, and a save gives way to nobody: between *)
(* its steps it can only fail or be the last thing the process did.        *)
(***************************************************************************)
EXTENDS Integers, Sequences, FiniteSets, FiniteSetsExt, SequencesExt

CONSTANTS
  Node, Store, Data,
  MaxVersion,    \* bound on the entries of an index
  MaxTime,       \* bound on the clock
  Fault,         \* what may happen: open (a file or directory cannot be made),
                 \* short (a file gets a prefix of what is written), crash
  NIL, ERROR,    \* a nil result; an error raised
  TORN           \* data that are not all there

FileDirAssumption ==
  /\ MaxVersion \in Nat /\ MaxTime \in Nat \ {0}
  /\ Node \subseteq Seq(STRING)                         \* an id, one character after another
  /\ Fault \subseteq {"open", "short", "crash"}
  /\ {NIL, ERROR, TORN} \cap (Data \cup Nat) = {}
  /\ NIL # ERROR /\ NIL # TORN /\ ERROR # TORN
  /\ \A x \in {NIL, ERROR} : x \notin [version : Nat, time : Nat] /\ x \notin Seq([version : Nat, time : Nat])

VARIABLES
  now,          \* the clock
  dirs,         \* the names of the directories
  file,         \* the data of each version; NIL if there is no file
  index,        \* the whole entries of the index, and whether it has no other
                \* text; an index that is not there reads as an empty one
  node_table,   \* the nodes a store knows
  save,         \* the save in progress
  saved         \* node, version and data of the saves that returned

disk == <<dirs, file, index>>
vars == <<now, disk, node_table, save, saved>>

Version == 1..MaxVersion
Time    == 1..MaxTime
Entry   == [version : Version, time : Time]

(***************************************************************************)
(* The name of a node's directory (versium/util.lua): fs_escape_id makes   *)
(* it of the id in three substitutions, and fs_unescape_id makes the id of *)
(* the name in three more when a store lists the directories.  A string is *)
(* the sequence of its characters.                                         *)
(***************************************************************************)
\* text:gsub(pattern, replacement): from left to right, behind what was replaced.
gsub(text, pattern, replacement) ==
  LET Found(i) == /\ i + Len(pattern) <= Len(text) + 1
                  /\ SubSeq(text, i, i + Len(pattern) - 1) = pattern
      from[i \in 1..Len(text) + 1] ==
        IF i > Len(text) THEN <<>>
        ELSE IF Found(i) THEN replacement \o from[i + Len(pattern)]
        ELSE <<text[i]>> \o from[i + 1]
  IN  from[1]

fs_escape_id(id) ==
  gsub(gsub(gsub(id, <<"%">>, <<"%", "2", "5">>), <<":">>, <<"%", "3", "A">>),
       <<"/">>, <<"%", "2", "F">>)

fs_unescape_id(name) ==
  gsub(gsub(gsub(name, <<"%", "2", "F">>, <<"/">>), <<"%", "3", "A">>, <<":">>),
       <<"%", "2", "5">>, <<"%">>)

\* The name of a node's directory, and the id that a name stands for.
Name(n) == fs_escape_id(n)
IdOf(name) == fs_unescape_id(name)

EmptyIndex == [list |-> <<>>, whole |-> TRUE]

Init == /\ now = 1
        /\ dirs = {} /\ file = [n \in Node |-> [v \in Version |-> NIL]]
        /\ index = [n \in Node |-> EmptyIndex]
        /\ node_table = [s \in Store |-> {}]
        /\ save = NIL /\ saved = {}
-----------------------------------------------------------------------------
\* (The variant that takes the names for ids.)
ListedNames == dirs

\* A new store's table: the nodes whose directories it lists.
Listed == {IdOf(name) : name \in dirs}

New(s) == /\ save = NIL
          /\ node_table' = [node_table EXCEPT ![s] = Listed]
          /\ UNCHANGED <<now, disk, save, saved>>

node_exists(s, n) == n \in node_table[s]

\* save_version: first the directory.  What mkdir returns is not looked at.
StartSave(s, n, d) ==
  /\ save = NIL /\ Len(index[n].list) < MaxVersion
  /\ save' = [step |-> "data", node |-> n, data |-> d, version |-> NIL]
  /\ IF node_exists(s, n)
       THEN UNCHANGED <<dirs, node_table>>
       ELSE /\ \/ dirs' = dirs \cup {Name(n)}
               \/ "open" \in Fault /\ UNCHANGED dirs
            /\ node_table' = [node_table EXCEPT ![s] = @ \cup {n}]
  /\ UNCHANGED <<now, file, index, saved>>

\* (The variant that takes the number of the newest entry.)
LastVersion(list) == IF list = <<>> THEN 1 ELSE Len(list)

\* (The variant that counts the new entry, too.)
VersionAfter(list) == Len(list) + 2

NewVersion(list) == Len(list) + 1

\* What a file written with d can then hold.
Written(d) == {d} \cup (IF "short" \in Fault THEN {TORN} ELSE {})

\* Then the history, the number of the new version and its data.
WriteData ==
  /\ save # NIL /\ save.step = "data"
  /\ LET n == save.node  v == NewVersion(index[n].list) IN
     \/ /\ index[n].whole /\ Name(n) \in dirs
        /\ \E d \in Written(save.data) : file' = [file EXCEPT ![n][v] = d]
        /\ save' = [save EXCEPT !.step = "index", !.version = v]
     \/ /\ ~index[n].whole \/ Name(n) \notin dirs \/ "open" \in Fault
        /\ save' = NIL
        /\ UNCHANGED file
  /\ UNCHANGED <<now, dirs, index, node_table, saved>>

\* What an index written with these entries can then be.
WrittenIndex(list) ==
  {[list |-> list, whole |-> TRUE]} \cup
  (IF "short" \in Fault
     THEN {[list |-> SubSeq(list, 1, k), whole |-> w] : k \in 0..Len(list) - 1, w \in BOOLEAN}
     ELSE {})

\* Then the index, with the new entry before the ones there were.
WriteIndex ==
  /\ save # NIL /\ save.step = "index"
  /\ LET n == save.node
         new_history == <<[version |-> save.version, time |-> now]>>
     IN \/ /\ \E i \in WrittenIndex(new_history \o index[n].list) :
                index' = [index EXCEPT ![n] = i]
           /\ saved' = saved \cup
                {[node |-> n, version |-> save.version, data |-> save.data]}
        \/ /\ "open" \in Fault
           /\ UNCHANGED <<index, saved>>
  /\ save' = NIL
  /\ UNCHANGED <<now, dirs, file, node_table>>

\* The process ends, at whatever point, and is started again.
Crash == /\ "crash" \in Fault
         /\ node_table' = [s \in Store |-> Listed]
         /\ save' = NIL
         /\ UNCHANGED <<now, disk, saved>>

Tick == /\ now < MaxTime
        /\ now' = now + 1
        /\ UNCHANGED <<disk, node_table, save, saved>>

Next == \/ \E s \in Store : New(s)
        \/ \E s \in Store, n \in Node, d \in Data : StartSave(s, n, d)
        \/ WriteData \/ WriteIndex \/ Crash \/ Tick

Spec == Init /\ [][Next]_vars
-----------------------------------------------------------------------------
\* Reading changes nothing but what is returned.

\* The entries of the times in p, which stands for a date prefix, Time for the empty one, which
\* all have.  Counting starts at 0, and add_version adds as long as the limit is not passed.
parse_history(list, p, limit) ==
  LET all_versions[i \in 0..Len(list)] ==
        IF i = 0 THEN <<>>
        ELSE IF (limit = NIL \/ Len(all_versions[i - 1]) <= limit) /\ list[i].time \in p
             THEN Append(all_versions[i - 1], list[i])
             ELSE all_versions[i - 1]
  IN  all_versions[Len(list)]

get_node_history(s, n, p, limit) ==
  IF ~node_exists(s, n) THEN NIL
  ELSE IF ~index[n].whole \/ index[n].list = <<>> THEN ERROR
  ELSE parse_history(index[n].list, p, limit)

\* (The variant that takes the last of the entries it gets.)
InfoOfLast(s, n, v) ==
  LET history == get_node_history(s, n, Time, IF v = NIL THEN 1 ELSE NIL)
      found   == {i \in DOMAIN history : v \in {NIL, history[i].version}}
  IN  IF found = {} THEN NIL ELSE history[Max(found)]

\* The entry of a version, the first one if there are several; NIL for the latest.
get_node_info(s, n, v) ==
  LET history == get_node_history(s, n, Time, IF v = NIL THEN 1 ELSE NIL)
      found   == {i \in DOMAIN history : v \in {NIL, history[i].version}}
  IN  IF found = {} THEN NIL ELSE history[Min(found)]

get_node(s, n, v) ==
  IF ~node_exists(s, n) THEN NIL
  ELSE IF get_node_history(s, n, Time, NIL) = ERROR THEN ERROR
  ELSE LET metadata == get_node_info(s, n, v) IN
       IF metadata = NIL THEN ERROR
       ELSE IF file[n][metadata.version] = NIL THEN ERROR
       ELSE file[n][metadata.version]

\* Sputnik's history of a node: limit is given to Versium and enforced once more by
\* removing the entries from limit on, each at the place it had before.
get_history(s, n, limit, p) ==
  LET edits == get_node_history(s, n, p, limit)
  IN  FoldLeft(LAMBDA list, i : IF i <= Len(list) THEN RemoveAt(list, i) ELSE list,
               edits, [k \in 1..Len(edits) + 1 - limit |-> limit + k - 1])

\* The possible lists of the newest k of the edits; those of a second come in any
\* order.
NewestFirst(edits, k) == {some \in kSubset(k, edits) :
                            \A e \in some, f \in edits \ some : f.time <= e.time}

\* Saci's history of all nodes: the newest edits of some of the nodes, no more of these
\* than there may be edits; nodes come in no order.
get_complete_history(s, limit) ==
  LET Size(S)    == IF limit < Cardinality(S) THEN limit ELSE Cardinality(S)
      Edits(ids) == UNION {{[id |-> n, version |-> e.version, time |-> e.time] :
                              e \in Range(get_node_history(s, n, Time, limit))} : n \in ids}
      known      == node_table[s]
  IN  UNION {NewestFirst(Edits(ids), Size(Edits(ids))) : ids \in kSubset(Size(known), known)}
-----------------------------------------------------------------------------
TypeOK ==
  /\ now \in Time /\ dirs \subseteq {Name(n) : n \in Node}
  /\ file \in [Node -> [Version -> Data \cup {NIL, TORN}]]
  /\ index \in [Node -> [list : Seq(Entry), whole : BOOLEAN]]
  /\ node_table \in [Store -> SUBSET Node]
  /\ \/ save = NIL
     \/ save \in [step : {"data", "index"}, node : Node, data : Data, version : Version \cup {NIL}]
  /\ saved \subseteq [node : Node, version : Version, data : Data]

\* The index lists the versions n, ..., 1, the later the newer, and each has its data:
\* a save that raises an error or is cut off by the end of the process leaves nothing
\* that a later save or read would stumble on (filedir.lua:207-234).
IndexSound ==
  \A n \in Node :
    LET list == index[n].list IN
    /\ index[n].whole
    /\ list # <<>> => Name(n) \in dirs
    /\ \A i \in DOMAIN list : /\ list[i].version = Len(list) + 1 - i
                              /\ file[n][i] \in Data
                              /\ i > 1 => list[i].time <= list[i - 1].time

\* What the directory holds, as versions.
Held == [n \in Node |->
  [v \in DOMAIN index[n].list |->
     [data |-> file[n][v], time |-> index[n].list[Len(index[n].list) + 1 - v].time]]]

S == INSTANCE VersionedStore WITH hist <- Held

\* Saving appends a version and changes no other one, although it is done in three
\* steps each of which may be the last (filedir.lua:207-234).
ImplementsVersionedStore == S!Spec

\* A store that knows a node reads what is there, whichever store saved it
\* (filedir.lua:111-164).
ReadsAgree ==
  save = NIL =>
    \A s \in Store : \A n \in node_table[s] :
      S!Exists(n) =>
        /\ get_node(s, n, NIL) = S!Latest(n)
        /\ \A v \in 1..Len(Held[n]) : get_node(s, n, v) = S!Content(n, v)

\* Histories have the newest versions of the times asked for: all of them, or no
\* fewer than the limit if there are so many (filedir.lua:76-95).
Periods == {Time} \cup {{t} : t \in Time}
Versions(list) == [i \in DOMAIN list |-> list[i].version]
HistoriesAgree ==
  save = NIL =>
    \A s \in Store : \A n \in node_table[s] : S!Exists(n) => \A p \in Periods :
      /\ S!IsHistory(n, p, Versions(get_node_history(s, n, p, NIL)))
      /\ \A limit \in 1..MaxVersion :
           LET some == Versions(get_node_history(s, n, p, limit))
           IN  S!AreNewest(n, p, some) /\ (Len(some) < limit => S!IsHistory(n, p, some))

\* A version that was saved is found under its number as it was saved, by every
\* store that knows the node, after whatever happened since (filedir.lua:14-21:
\* "has_history = true, is_persistent = true").
SavedIsKept ==
  save = NIL =>
    \A r \in saved, s \in Store :
      node_exists(s, r.node) => get_node(s, r.node, r.version) = r.data

\* A store that lists the directory, anew or after a restart, knows every node that
\* has been saved, under its own id and no other: the names of directories are turned
\* back into ids, even of ids that look like such names (filedir.lua:50-60,
\* util.lua:18-43).
ListsSaved ==
  \A s \in Store :
    New(s) \/ Crash => /\ {r.node : r \in saved} \subseteq node_table'[s]
                      /\ node_table'[s] \subseteq {n \in Node : Name(n) \in dirs}
NewStoreKnowsSaved == [][ListsSaved]_vars

\* "compare with the immediately previous version" (sputnik/actions/wiki.lua:832-833):
\* what follows a version in the history is the version before it.
FollowedByPrevious ==
  save = NIL =>
    \A s \in Store, n \in Node, limit \in 1..MaxVersion :
      n \in node_table[s] /\ S!Exists(n) =>
        LET history == get_history(s, n, limit, Time)
        IN  \A i \in 1..Len(history) - 1 : history[i + 1].version = history[i].version - 1

\* "Returns history for all nodes" (sputnik/init.lua:564): if there are no more nodes
\* than edits asked for, an edit that is left out is no newer than those returned.
\* (Of more nodes some are left out altogether: saci.lua:245.)
CompleteHistoryIsNewest ==
  save = NIL =>
    \A s \in Store : (\A n \in node_table[s] : S!Exists(n)) =>
      \A limit \in 1..MaxVersion :
        Cardinality(node_table[s]) <= limit =>
          \A edits \in get_complete_history(s, limit) :
            \A e \in edits, n \in node_table[s] : \A i \in DOMAIN index[n].list :
              LET f == index[n].list[i] IN
              f.time > e.time => \E x \in edits : x.id = n /\ x.version = f.version
=============================================================================
