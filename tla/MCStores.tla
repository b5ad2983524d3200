------------------------------- MODULE MCStores --------------------------------
(***************************************************************************)
(* What Copas, Versium and Sputnik keep: sets of sockets with the queues   *)
(* of their coroutines (NewSet), versions of nodes in files                *)
(* (FileDirVersium), and nodes in the memory of an instance (NodeCache),   *)
(* side by side.  They share no state: a behaviour moves one of them       *)
(* (part), and the others stay in their first state.                       *)
(*                                                                         *)
(* Three sockets and two coroutines are enough for the swap in remove to   *)
(* hit the first, a middle and the last element, and for a queue to grow   *)
(* and be dropped.                                                         *)
(***************************************************************************)
EXTENDS NewSet, TLC

CONSTANTS Node, Store, Data, MaxVersion, MaxTime, Fault, ERROR, TORN,       \* versions in files
          root, page1, page2,
          Instance, Page, Field, Raw, Proto, Wrong, MaxEdits                      \* nodes in memory

VARIABLES part,
          now, dirs, file, index, node_table, save, saved,
          disk, cache, page

Seqs == INSTANCE SequencesExt
Versions == INSTANCE FileDirVersium
Pages == INSTANCE NodeCache WITH Node <- Page, Value <- Raw, Ring <- Instance, MaxVersion <- MaxEdits

ASSUME VersionsAssumption == Versions!FileDirAssumption
ASSUME PagesAssumption == Pages!NodeCacheAssumption

\* Every id of up to four characters is found again from the name of its directory,
\* which is one component of a path (util.lua:18-43).
ASSUME NamesAreIds ==
  \A id \in Seqs!BoundedSeq({"%", "/", ":", "2", "3", "5", "A", "F"}, 4) :
    /\ Range(Versions!fs_escape_id(id)) \cap {"/", ":"} = {}
    /\ Versions!fs_unescape_id(Versions!fs_escape_id(id)) = id

Symmetry == Permutations(Store) \cup Permutations(Data) \cup Permutations(Raw \ Wrong)

(***************************************************************************)
(* One part moves.                                                         *)
(***************************************************************************)
MCInit ==
  /\ part \in {"sets", "versions", "pages"}
  /\ Init /\ Versions!Init
  /\ IF part = "pages" THEN Pages!Init ELSE disk = <<>> /\ cache = <<>> /\ page = NIL

\* What is not of p stays.
Still(p) ==
  /\ UNCHANGED part
  /\ IF p = "sets" THEN TRUE ELSE UNCHANGED vars
  /\ IF p = "versions" THEN TRUE ELSE UNCHANGED <<now, dirs, file, index, node_table, save, saved>>
  /\ IF p = "pages" THEN TRUE ELSE UNCHANGED <<disk, cache, page>>

MCNext ==
  \/ part = "sets" /\ Next /\ Still("sets")
  \/ part = "versions" /\ Versions!Next /\ Still("versions")
  \/ part = "pages" /\ Pages!Next /\ Still("pages")

MCSpec == MCInit /\ [][MCNext]_<<part, vars, now, dirs, file, index, node_table, save, saved, disk, cache, page>>

(***************************************************************************)
(* Properties of the parts; the sets' are ImplementsFifoSet and            *)
(* ReverseIsInverse, which hold of their first state too.                  *)
(***************************************************************************)
\* The index has the versions that were saved, and every read, by whichever store, agrees with it.
VersionsSound == part = "versions" => Versions!IndexSound /\ Versions!ReadsAgree /\ Versions!SavedIsKept

\* Saving appends a version and changes no other, wherever it is cut off.
ImplementsVersionedStore == Versions!ImplementsVersionedStore

\* What is shown is what is stored: histories, by whichever store, agree with the index, a page
\* with the latest version, and a cached node's prototype is in the cache.
ShownSound ==
  /\ part = "versions" => Versions!HistoriesAgree /\ Versions!CompleteHistoryIsNewest
  /\ part = "pages" => Pages!ShownIsStored /\ Pages!ProtosCached

\* A new store knows what was saved; a new version of a page differs in what was edited.
StepsKeep == [][/\ part = "versions" => Versions!ListsSaved
                /\ part = "pages" => Pages!SavesOnlyGiven]_<<part, dirs, file, index, node_table, save, saved, disk, cache, page>>

\* What follows a version in the history is the version before it.
FollowedByPrevious == part = "versions" => Versions!FollowedByPrevious

\* A page shows what is stored, whichever instance changed it.
ShownIsStored == part = "pages" => Pages!ShownIsStored

(***************************************************************************)
(* Ids of nodes, and prototypes of pages.                                  *)
(***************************************************************************)
\* "/" and an id that looks like the name of its directory.
MCNode == {<<"/">>, <<"%", "2", "F">>}
MCSingle == {<<"/">>}

\* A page whose prototype is the root, and one whose prototype is that page.
MCProto == (root :> NIL) @@ (page1 :> root) @@ (page2 :> page1)
MCRoot == (root :> NIL)
================================================================================
