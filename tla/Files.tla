---------------------------------- MODULE Files ----------------------------------
(***************************************************************************)
(* The file handles of liolib.c: userdata that hold a FILE *, the default  *)
(* input and output, the iterators of lines, and the collector, which      *)
(* finalizes the handles nothing refers to.  On Windows CE popen never     *)
(* gives a stream (lwince.c).                                              *)
(***************************************************************************)
EXTENDS Integers, FiniteSets

CONSTANTS Handles,     \* userdata the program may create
          Streams,     \* FILE objects of the C library, used again after they are closed
          MaxIterators \* bound: iterators at once

VARIABLES handle,      \* userdata -> [state, file, close], the FILE and the __close of its environment
          stream,      \* FILE -> what it is: "free", or how it was opened
          held,        \* handles the program refers to, besides those of io
          default,     \* "input", "output" -> handle
          iterators,   \* [h, toclose] of the iterators the program keeps
          called       \* the C library's function called by the last step, and its FILE

vars == <<handle, stream, held, default, iterators, called>>

Stdin == "stdin"
Stdout == "stdout"
Stderr == "stderr"
Std == {Stdin, Stdout, Stderr}
NULL == "NULL"
Unused == [state |-> "unused", file |-> NULL, close |-> "fclose"]
AllHandles == Handles \cup Std
AllStreams == Streams \cup Std
NoCall == [f |-> "none", file |-> NULL]
Call(f, file) == [f |-> f, file |-> file]
DefaultOf(name) == default[name]

Init ==
  /\ handle = [h \in AllHandles |-> IF h \in Std THEN [state |-> "file", file |-> h, close |-> "noclose"] ELSE Unused]
  /\ stream = [f \in AllStreams |-> IF f \in Std THEN "std" ELSE "free"]
  /\ held = {} /\ default = [input |-> Stdin, output |-> Stdout]
  /\ iterators = {} /\ called = NoCall

FileOf(h) == handle[h].file
IsOpen(h) == FileOf(h) # NULL
Mine == held \cup Std

\* newfile, closed at first, with the environment of the function that makes it; then
\* the stream is opened.  An error of memory comes before, or after, as no stream is open.
CloseOf(how) == IF how = "popen" THEN "pclose" ELSE "fclose"
New(h, how) ==
  /\ handle[h] = Unused
  /\ \E f \in Streams : stream[f] = "free" /\ stream' = [stream EXCEPT ![f] = how]
                        /\ handle' = [handle EXCEPT ![h] = [state |-> "file", file |-> f, close |-> CloseOf(how)]]
                        /\ called' = Call(how, f)
NewClosed(h, how) ==
  /\ handle[h] = Unused
  /\ handle' = [handle EXCEPT ![h] = [state |-> "file", file |-> NULL, close |-> CloseOf(how)]]
  /\ called' = NoCall /\ UNCHANGED stream

Open ==
  \E h \in Handles, how \in {"open", "popen", "tmpfile"} :
    \/ how # "popen" /\ New(h, how) /\ held' = held \cup {h} /\ UNCHANGED <<default, iterators>>
    \/ NewClosed(h, how) /\ UNCHANGED <<held, default, iterators>>                \* nil and a message

LeftOpen(h) == handle
Closed(h) == [handle EXCEPT ![h].file = NULL]
\* __close: the stream is closed and the handle marked, but for a standard file.
AuxClose(h) ==
  CASE handle[h].close = "noclose" -> called' = NoCall /\ UNCHANGED <<handle, stream>>
    [] OTHER -> /\ called' = Call(handle[h].close, FileOf(h))
                /\ stream' = [stream EXCEPT ![FileOf(h)] = "free"]
                /\ handle' = Closed(h)
Close ==
  \E h \in Mine \cup {DefaultOf("output")} :             \* file:close(), io.close()
    /\ IF IsOpen(h) THEN AuxClose(h) ELSE called' = NoCall /\ UNCHANGED <<handle, stream>>   \* attempt to use a closed file
    /\ UNCHANGED <<held, default, iterators>>

\* io.input, io.output: of a name, a handle; or the current one, which the program then has.
SetDefault ==
  \E name \in {"input", "output"} :
    \/ \E h \in Handles : \/ New(h, "open") /\ default' = [default EXCEPT ![name] = h]
                             /\ held' = held \cup {h} /\ UNCHANGED iterators
                          \/ NewClosed(h, "open") /\ UNCHANGED <<held, default, iterators>>
    \/ \E h \in Mine : /\ IsOpen(h) /\ default' = [default EXCEPT ![name] = h]
                       /\ called' = NoCall /\ UNCHANGED <<handle, stream, held, iterators>>
    \/ held' = held \cup ({DefaultOf(name)} \ Std) /\ called' = NoCall /\ UNCHANGED <<handle, stream, default, iterators>>

\* io.lines(name): the iterator alone has the handle.  file:lines(), io.lines().
Lines ==
  Cardinality(iterators) < MaxIterators /\
  \/ \E h \in Handles : \/ New(h, "open") /\ iterators' = iterators \cup {[h |-> h, toclose |-> TRUE]} /\ UNCHANGED <<held, default>>
                        \/ NewClosed(h, "open") /\ UNCHANGED <<held, default, iterators>>
                        \/ New(h, "open") /\ UNCHANGED <<held, default, iterators>>         \* no memory for the closure
  \/ \E h \in Mine \cup {DefaultOf("input")} :
       /\ IsOpen(h) /\ iterators' = iterators \cup {[h |-> h, toclose |-> FALSE]}
       /\ called' = NoCall /\ UNCHANGED <<handle, stream, held, default>>

ReadLine ==
  \E it \in iterators :
    /\ IsOpen(it.h)                                      \* else an error: file is already closed
    /\ \/ called' = Call("fgets", FileOf(it.h)) /\ UNCHANGED <<handle, stream>>
       \/ IF it.toclose THEN AuxClose(it.h) ELSE called' = Call("fgets", FileOf(it.h)) /\ UNCHANGED <<handle, stream>>
    /\ UNCHANGED <<held, default, iterators>>

\* read, write, seek, flush, setvbuf of a handle, or of a default one.
NoCheck(h) == TRUE
Checked(h) == IsOpen(h)
Use ==
  \E h \in Mine \cup {DefaultOf("input"), DefaultOf("output")} :
    /\ Checked(h) /\ called' = Call("use", FileOf(h))
    /\ UNCHANGED <<handle, stream, held, default, iterators>>

Forget ==
  /\ \/ \E h \in held : held' = held \ {h} /\ UNCHANGED iterators
     \/ \E it \in iterators : iterators' = iterators \ {it} /\ UNCHANGED held
  /\ called' = NoCall /\ UNCHANGED <<handle, stream, default>>

Referred == held \cup {default["input"], default["output"]} \cup {it.h : it \in iterators} \cup Std
\* The collector finalizes what is not referred to; io has the standard handles.
Collect ==
  \E h \in Handles \ Referred :
    /\ handle[h].state = "file"
    /\ IF IsOpen(h)
       THEN /\ called' = Call(handle[h].close, FileOf(h))
            /\ stream' = [stream EXCEPT ![FileOf(h)] = "free"]
       ELSE called' = NoCall /\ UNCHANGED stream
    /\ handle' = [handle EXCEPT ![h] = Unused]
    /\ UNCHANGED <<held, default, iterators>>

Next == Open \/ Close \/ SetDefault \/ Lines \/ ReadLine \/ Use \/ Forget \/ Collect
Spec == Init /\ [][Next]_vars

(***************************************************************************)
(* Properties.                                                             *)
(***************************************************************************)
\* A stream is in one handle as long as it is open, and a handle has no stream that was closed.
OneHandle ==
  /\ \A h \in AllHandles : IsOpen(h) => stream[FileOf(h)] # "free"
  /\ \A f \in AllStreams : stream[f] # "free" => Cardinality({h \in AllHandles : FileOf(h) = f}) = 1

\* The C library is never given a closed stream; a stream is closed by the function that
\* goes with how it was opened, a standard one by none, and a handle the program has
\* only by close or at the end of its own io.lines.
Handled ==
  /\ called'.f \in {"use", "fgets"} => called'.file # NULL /\ stream[called'.file] # "free"
  /\ called'.f \in {"fclose", "pclose"} => stream[called'.file] \in {"open", "tmpfile"} /\ called'.f = "fclose"
  /\ \A h \in Mine : IsOpen(h) /\ ~IsOpen(h)' => Close \/ [h |-> h, toclose |-> TRUE] \in iterators
ClosedAsOpened == [][Handled]_vars
=============================================================================
