--------------------------------- MODULE Packages ---------------------------------
(***************************************************************************)
(* require and module (loadlib.c): package.loaded, the loaders tried in    *)
(* turn, the chunks of modules that require others while they run, and the *)
(* libraries loaded for modules in C, with the userdata they create.       *)
(*                                                                         *)
(* A value of package.loaded is nil, false, the sentinel of a module being *)
(* loaded, true, the table module made, or what the chunk returned.        *)
(***************************************************************************)
EXTENDS Integers, Sequences, SequencesExt, FiniteSets

CONSTANTS Names,       \* of modules
          Root,        \* Names -> the name up to its first dot
          Worlds,      \* [preload, lua, bad, c, symbols]: sets of names, and symbols of each library
          MaxObjects,  \* bound: userdata a library's functions have created
          MaxFailures  \* bound: errors raised

VARIABLES world, loaded, globals, frames,
          library,     \* file -> "none", "entry" (in the registry, not loaded), "loaded", "freed"
          objects,     \* userdata with finalizers, in order of creation: [file, handle]
          closing,
          runs,        \* times the chunk of a module started, since it was last not loaded
          given,       \* what require gave for it since
          exposed,     \* modules whose chunk called module since
          failures

vars == <<world, loaded, globals, frames, library, objects, closing, runs, given, exposed, failures>>
history == <<runs, given, exposed>>

Nil == "nil"
False == "false"
Sentinel == "sentinel"
ToBoolean(v) == v \notin {Nil, False}

Init ==
  /\ world \in Worlds
  /\ loaded = [n \in Names |-> Nil] /\ globals = [n \in Names |-> Nil] /\ frames = <<>>
  /\ library = [n \in Names |-> "none"] /\ objects = <<>> /\ closing = FALSE
  /\ runs = [n \in Names |-> 0] /\ given = [n \in Names |-> {}] /\ exposed = {} /\ failures = 0

Running(n) == \E i \in DOMAIN frames : frames[i].name = n

\* ll_register: the handle in the registry is made once; then the library is loaded.
Registered(file) == IF library[file] = "none" THEN Append(objects, [file |-> file, handle |-> TRUE]) ELSE objects
LoadFunc(file, sym) ==
  CASE file \in world.bad -> "errlib"
    [] sym \notin world.symbols[file] -> "errfunc"
    [] OTHER -> "function"

\* What each loader does: function (with the library it is in), nothing found, an error.
NoFile == "no file"
LoaderPreload(n) == [got |-> IF n \in world.preload THEN "function" ELSE "message", file |-> NoFile]
LoaderLua(n) == [got |-> CASE n \notin world.lua -> "message" [] n \in world.bad -> "error" [] OTHER -> "function", file |-> NoFile]
LoaderC(n) ==
  IF n \notin world.c THEN [got |-> "message", file |-> NoFile]
  ELSE [got |-> IF LoadFunc(n, n) = "function" THEN "function" ELSE "error", file |-> n]
LoaderCroot(n) ==
  IF Root[n] = n \/ Root[n] \notin world.c THEN [got |-> "message", file |-> NoFile]
  ELSE [got |-> CASE LoadFunc(Root[n], n) = "errlib" -> "error" [] LoadFunc(Root[n], n) = "errfunc" -> "message" [] OTHER -> "function",
        file |-> Root[n]]
Loaders(n) == <<LoaderPreload(n), LoaderLua(n), LoaderC(n), LoaderCroot(n)>>
\* The first that does not just say where it looked.
FirstOf(n) == SelectInSeq(Loaders(n), LAMBDA r : r.got # "message")
Outcome(n) == IF FirstOf(n) = 0 THEN "not found" ELSE Loaders(n)[FirstOf(n)].got
Tried(n) == SubSeq(Loaders(n), 1, IF FirstOf(n) = 0 THEN 4 ELSE FirstOf(n))
FilesTouched(n) == {r.file : r \in Range(Tried(n))} \ {NoFile}
Touch(n) ==
  /\ library' = [f \in Names |-> IF f \notin FilesTouched(n) \/ library[f] = "loaded" THEN library[f]
                                 ELSE IF f \in world.bad THEN "entry" ELSE "loaded"]
  /\ objects' = (IF FilesTouched(n) = {} THEN objects ELSE Registered(CHOOSE f \in FilesTouched(n) : TRUE))

\* An error goes up to a pcall in some chunk under way, or in the program.
Raised(from) ==
  /\ failures < MaxFailures /\ failures' = failures + 1
  /\ \E k \in 0 .. Len(from) : frames' = SubSeq(from, 1, k)
  /\ UNCHANGED <<world, loaded, globals, closing, history>>

Give(n, v) == given' = [given EXCEPT ![n] = @ \cup {v}]

NoSentinel(n) == ToBoolean(loaded[n]) /\ loaded[n] # Sentinel
IsLoaded(n) == ToBoolean(loaded[n])
Require ==
  \E n \in Names :
    /\ ~closing
    /\ \/ /\ IsLoaded(n) /\ loaded[n] # Sentinel
          /\ Give(n, loaded[n])
          /\ UNCHANGED <<world, loaded, globals, frames, library, objects, closing, runs, exposed, failures>>
       \/ IsLoaded(n) /\ loaded[n] = Sentinel /\ Raised(frames) /\ UNCHANGED <<library, objects>>     \* loop or previous error
       \/ ~IsLoaded(n) /\ Touch(n) /\ Outcome(n) # "function" /\ Raised(frames)
       \/ /\ ~IsLoaded(n) /\ Touch(n) /\ Outcome(n) = "function"
          /\ loaded' = [loaded EXCEPT ![n] = Sentinel]
          /\ frames' = Append(frames, [name |-> n, file |-> Loaders(n)[FirstOf(n)].file])
          /\ runs' = [runs EXCEPT ![n] = @ + 1]
          /\ UNCHANGED <<world, globals, closing, given, exposed, failures>>

\* The chunk of the module returns, nothing or a value.
Top == frames[Len(frames)].name
Result(v) ==
  LET set == IF v # Nil THEN v ELSE loaded[Top]
  IN IF set = Sentinel THEN "true" ELSE set
Return ==
  /\ frames # <<>>
  /\ \E v \in {Nil, False, "value"} :
       /\ loaded' = [loaded EXCEPT ![Top] = Result(v)]
       /\ IF Result(v) = False
          THEN /\ given' = [given EXCEPT ![Top] = {}] /\ runs' = [runs EXCEPT ![Top] = 0]
               /\ exposed' = exposed \ {Top}
          ELSE Give(Top, Result(v)) /\ UNCHANGED <<runs, exposed>>
  /\ frames' = Front(frames)
  /\ UNCHANGED <<world, globals, library, objects, closing, failures>>

\* module(...) in the chunk of a module: its table, in package.loaded and in a global.
\* (What a chunk returned is there only when the chunk is over.)
Module ==
  /\ frames # <<>>
  /\ \/ /\ loaded[Top] # "table" /\ globals[Top] = "other"                   \* name conflict
        /\ Raised(frames) /\ UNCHANGED <<library, objects>>
     \/ /\ loaded[Top] = "table" \/ globals[Top] # "other"
        /\ loaded' = [loaded EXCEPT ![Top] = "table"]
        /\ globals' = [globals EXCEPT ![Top] = IF loaded[Top] = "table" THEN @ ELSE "table"]
        /\ exposed' = exposed \cup {Top}
        /\ UNCHANGED <<world, frames, library, objects, closing, runs, given, failures>>

Fail == frames # <<>> /\ Raised(Front(frames)) /\ UNCHANGED <<library, objects>>

\* A global of that name, and package.loaded[n] = nil for a module that is not being loaded.
SetGlobal ==
  /\ frames = <<>> /\ ~closing
  /\ \E n \in Names : globals[n] = Nil /\ globals' = [globals EXCEPT ![n] = "other"]
  /\ UNCHANGED <<world, loaded, frames, library, objects, closing, history, failures>>
Reset ==
  /\ ~closing
  /\ \E n \in Names :
       /\ loaded[n] # Nil /\ ~Running(n)
       /\ loaded' = [loaded EXCEPT ![n] = Nil]
       /\ runs' = [runs EXCEPT ![n] = 0] /\ given' = [given EXCEPT ![n] = {}] /\ exposed' = exposed \ {n}
  /\ UNCHANGED <<world, globals, frames, library, objects, closing, failures>>

\* Functions of a library create userdata whose finalizers are its functions.
Create ==
  /\ frames # <<>> /\ Len(objects) < MaxObjects
  /\ frames[Len(frames)].file # NoFile
  /\ objects' = Append(objects, [file |-> frames[Len(frames)].file, handle |-> FALSE])
  /\ UNCHANGED <<world, loaded, globals, frames, library, closing, history, failures>>

\* The collector takes userdata that became garbage; the registry keeps the handles.
Finalize(i) ==
  /\ objects' = RemoveAt(objects, i)
  /\ library' = IF objects[i].handle /\ library[objects[i].file] = "loaded" THEN [library EXCEPT ![objects[i].file] = "freed"] ELSE library
  /\ UNCHANGED <<world, loaded, globals, frames, closing, history, failures>>
Collect == ~closing /\ \E i \in DOMAIN objects : ~objects[i].handle /\ Finalize(i)

Close ==
  /\ frames = <<>> /\ ~closing /\ closing' = TRUE
  /\ UNCHANGED <<world, loaded, globals, frames, library, objects, history, failures>>
OldestFirst(n) == 1
FirstFinalized(n) == n                                   \* of n, the last created
FinalizeAll == closing /\ objects # <<>> /\ Finalize(FirstFinalized(Len(objects)))

Next == Require \/ Return \/ Module \/ Fail \/ SetGlobal \/ Reset \/ Create \/ Collect \/ Close \/ FinalizeAll
Spec == Init /\ [][Next]_vars

(***************************************************************************)
(* Properties.                                                             *)
(***************************************************************************)
\* Unless the program forgets a module, its chunk runs once, even when it failed, when
\* modules require each other in a circle, and when several require it; all get the
\* same value, but for a module that shows its table by module and then returns another.
LoadsOnce ==
  \A n \in Names :
    /\ runs[n] <= 1
    /\ Cardinality({i \in DOMAIN frames : frames[i].name = n}) <= 1
    /\ Cardinality(given[n]) > 1 => n \in exposed
    /\ Running(n) /\ n \notin exposed => loaded[n] = Sentinel
    /\ loaded[n] = Sentinel => given[n] = {}

\* A library is loaded while there is userdata of its functions, to the last finalizer
\* lua_close runs.
LibraryOutlives == \A i \in DOMAIN objects : ~objects[i].handle => library[objects[i].file] = "loaded"
=============================================================================
