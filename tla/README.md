# A verification project for lua4wince

lua4wince packages the Kepler web platform for Windows CE: a Lua 5.1
interpreter with its libraries, a single-threaded web server (Xavante over Copas
and LuaSocket), WSAPI to run applications in isolated Lua states (Rings), and the
wiki Sputnik with its storage (Saci over Versium).  This directory holds TLA+
models of the parts that keep state over time or whose result is hard to see from
the code, TLC configurations that check them on small instances, and proofs,
checked by TLAPS, for instances of any size.

Paths below are relative to `src/org.keplerproject.lua4wince/`; `copas.lua`
stands for `lua/5.1/copas.lua`, `lgc.c` for `source/lua/lgc.c`, and so on.

- [The system](#the-system)
- [Inventory](#inventory)
- [Modules](#modules)
- [The models and the code](#the-models-and-the-code)
- [Runs](#runs)
- [Fairness](#fairness)
- [Proofs](#proofs)
- [Where code and documentation differ](#where-code-and-documentation-differ)
- [Not modelled](#not-modelled)
- [Plan](#plan)

## The system

```
   Sputnik: handle_request  -->  Saci: node cache --> Versium: filedir
        | one state per request at a time             |
   WSAPI: pool of Lua states (Rings) per application  |
        |                                             |
   Xavante: one coroutine per connection              |
        | receive, send                               |
   Copas: step, _select, coroutines                   |
        |                                             |
   LuaSocket: buffers, timed calls, select    LPeg, strings, MIME, io, package, os
   ------------------------------------------------------------------------
   Lua core: lexer, compiler, machine, calls and coroutines, tables, collector
   ------------------------------------------------------------------------
            Windows CE: sockets, files, clock (lwince.c)
```

There is one thread of control.  What makes the system hard is:

1. *Coroutines.*  Every connection has one; it gives way in `receive`, `send` and
   `connect` and nowhere else.  Whatever is read before such a call may be old
   after it.  In the C code a coroutine shares the one C stack with all others.
2. *The network*, which delivers in fragments of any size, stops, or ends the
   connection at any time; and the clock.
3. *Several Lua states* of one application.  Each has its own modules, so its own
   Sputnik instance, node cache and Versium store, over the same files.
4. *The end of the process*, or an error raised, between two steps of an operation
   on files; `longjmp` out of any depth of the interpreter.
5. *The incremental collector*, which works in pieces between the steps of the
   program and calls finalizers, which are part of the program.
6. *Optimizations* of the two compilers, Lua's and LPeg's, which must not change
   what a program or a pattern means.

## Inventory

| Part | State it keeps | Operations | Talks to | What is hard | What makes it correct |
|---|---|---|---|---|---|
| Copas collections (`copas.lua:58-104`) | array, reverse index, a queue per value | insert, remove, push, pop | dispatcher | the swap with the last element in `remove` | a set with one FIFO per value |
| Copas dispatcher (`copas.lua:106-433`) | `_servers`, `_reading`, `_writing`, their logs, `last_cleansing`, `_errhandlers`, coroutines | receive, send, connect, addserver, addthread, setErrorHandler, step | `select`, handlers | order of events, two users of one socket, closed sockets, capacity of an `fd_set`, the watchdog | no coroutine is lost, resumed twice or for another's event; whoever waits is woken |
| LuaSocket streams (`buffer.c`) | input buffer, `lastIndex` | receive with three patterns, send with indices | socket, Copas | a call taken up again after a timeout; fragments | each byte once and in order; results tell the truth |
| LuaSocket sockets (`wsocket.c`, `timeout.c`, `tcp.c`, `udp.c`, `select.c`) | class of each object, its system socket, block and total timeout, start of a call | connect, accept, send, receive, close, settimeout, select | Windows sockets | numbers used again after a close, time that passes between retries | one owner per socket; a call keeps its timeouts |
| LuaSocket filters (`mime.c`, `ltn12.lua`) | the end of the last chunk | encode, decode, wrap, end of line, dot stuffing | sinks | a chunk may end anywhere | the same text whatever the chunks |
| Xavante (`xavante/*.lua`) | connection, request, response headers | read request, dispatch, respond, keep-alive | Copas, WSAPI | when a connection may be kept | not modelled |
| WSAPI (`wsapi/*.lua`) | pool of states per application file, in-use mark, a coroutine per state | load, run a request, deliver a response | Xavante, Rings | requests that give way between loading and the end of the response; the file changes | a state serves one request at a time and comes back |
| Rings (`rings.c`) | slave states, cache of strings, stacks | new, close, dostring, remotedostring | master state | nesting of the two directions, coroutines that wait in a slave, an address used again | a remote string runs for the slave that waits for it; stacks balance |
| Sputnik (`sputnik/*.lua`) | the Saci instance | show, save, preview, redirects, histories | Saci | the cache survives redirects and errors | shown is what is stored; a save changes what it was given |
| Saci (`saci.lua`, `saci/*.lua`) | `cache`, `proto_cache` through nodes | get_node, update, save_node, reset_cache, histories | Versium | inheritance from prototypes cached earlier | the same |
| Versium (`versium/*.lua`) | directories, data files, index files, `node_table` | new, save_version, get_node, get_node_info, get_node_history, node_exists | file system | failure or the end of the process between steps; several stores | numbered versions that stay as they are |
| Lua collector (`lgc.c`, `lfunc.c`, `lstring.c`) | colours, gray lists, string table, open upvalues, userdata to finalize | step, full collection, barriers, close | everything that allocates | the program changes the heap while marking is half done | nothing reachable is freed; garbage is |
| Lua calls (`ldo.c`, `lapi.c`) | call information, C levels, error handlers | call, pcall, error, resume, yield, hooks | everything | `longjmp` cuts several layers at once | call information in step with the C stack |
| Lua tables (`ltable.c`, `ltablib.c`) | array part, hash part, free pointer | get, set, next, rehash, length, insert, remove, sort | collector | a traversal while keys are cleared; moved keys | a map; each key once |
| Lua compiler and machine (`lcode.c`, `lparser.c`, `lvm.c`, `ldebug.c`) | jump lists, registers, frames, upvalues | every statement and expression, every instruction | calls, tables | delayed jumps and folding; closures out of loops | a program means what it says |
| Lua lexer, chunks (`llex.c`, `ldump.c`, `lundump.c`, `lzio.c`) | current character, look-ahead, pieces of a reader | next token, dump, load | compiler | a piece may end anywhere | tokens and functions as written |
| Lua auxiliary library (`lauxlib.c`) | buffer pieces on the stack, the free list of references | add, push result, ref, unref | C libraries | the stack's share of a buffer; a list inside the table | what was added, in order; distinct references |
| Lua string library (`lstrlib.c`) | captures of a match | find, match, gmatch, gsub, sub | | backtracking, positions at the ends | the leftmost match a pattern allows |
| Lua I/O, package, system libraries (`liolib.c`, `loadlib.c`, `loslib.c`) | handles, default files, package.loaded, libraries | open, close, lines, require, module, time, date | collector, `lwince.c` | finalizers of handles and libraries, a module that requires itself | closed once; loaded once; a date and its time agree |
| CE compatibility layer (`lwince.c` and others) | current directory, tables of time zones | C library functions | Windows CE | calendar arithmetic | dates as in any C library |
| LPeg (`lpeg.c`) | code of a pattern, stack, captures | pattern constructors, match | string library | optimizations that move captures and jumps | a pattern matches what its grammar means, and ends |
| CGILua (`cgilua/*.lua`), coxpcall, start-up, shell, text utilities, LuaFileSystem, md5, wiki pages, tests | | | | | not modelled, see below |

`PROJECT.json` has the same list with the files of each part, the hazards with
the line where each bites, and the lines every definition stands for.

## Modules

| Module | What it is |
|---|---|
| `SetOps` | insert, remove, push, pop as operators on sequences, in the form the dispatcher uses them |
| `NewSet` | `newset` in the representation of the code: array, reverse table, queues |
| `FifoSet` | abstract specification: a set with one FIFO per value |
| `Copas` | the dispatcher, its coroutines, `select`, network and clock |
| `ByteReader` | abstract specification of receive: every call returns the bytes it took |
| `ReceiveStream` | receive and receivePartial over LuaSocket's buffer |
| `SendStream` | send over LuaSocket's unbuffered send |
| `RingPool` | the pool of application states and the run of requests in them |
| `Rings` | a master state and its slaves: dostring, remotedostring, close, coroutines |
| `Sockets` | objects, system sockets, timed calls and `select` of LuaSocket |
| `VersionedStore` | abstract specification: versions numbered from 1 that never change |
| `FileDirVersium` | Versium in a directory tree, and the histories made of it |
| `NodeCache` | Sputnik's requests over Saci's cache |
| `Collector` | the incremental collector and the program it works for |
| `Calls` | calls, protected calls, errors, hooks and coroutines on one C stack |
| `HashTable` | a table's two parts under insertion, clearing, collection and traversal |
| `TableSort` | `table.sort` |
| `LuaCode`, `LuaCompile` | the code generator and the one-pass compiler |
| `LuaMachine` | the machine that runs the code, and the checker of bytecode |
| `LuaReference` | abstract specification: what a program means |
| `Lexer` | tokens of a text, with a definition of what the tokens are |
| `Loader` | dump and undump over a reader that gives pieces |
| `AuxLib` | `luaL_Buffer` and `luaL_ref` |
| `LuaStrings` | pattern matching and what is built on it |
| `LuaPatterns` | abstract specification: the ways a pattern can match |
| `LpegCode`, `Lpeg` | the code LPeg makes of a pattern; the machine that runs it, captures |
| `LpegReference` | abstract specification: what a grammar means |
| `Mime` | transfer encodings as filters in a chain |
| `Files`, `Packages`, `Calendar` | handles and streams; require and module; times and dates |
| `MCStores`, `MCCopas`, `MCStreams`, `MCHosts`, `MCLua`, `MCLibraries`, `MCCollector` | what a run explores: components side by side, constants, bounds, the properties by the names the runs use |
| `SetOpsTheorems` | lemmas about `SetOps` |
| `CopasProofs`, `SendProofs`, `StreamsProofs`, `StoresProofs`, `HostsProofs` | theorems with their proofs |

Refinements: `NewSet` implements `FifoSet`, `ReceiveStream` implements
`ByteReader`, `FileDirVersium` implements `VersionedStore`.  The parts of the
core and the libraries that compute something are compared with a definition of
their own of what they should compute: `LuaMachine` with `LuaReference`, `Lpeg`
with `LpegReference`, `LuaStrings` with `LuaPatterns`, `HashTable` with a map.

How they depend on each other: `Copas` uses the operators of `SetOps`; that these
are what `newset` does to its array, and that they work with queues as `FifoSet`
says, is the refinement of `NewSet`.  The streams take from `Copas` the promise
that a coroutine whose socket is ready is resumed (`ReadyIsResumed`, part of
`Served`) as their fairness.  `RingPool` takes from `Rings` that a state runs what
it is given on the coroutine that gave it.

Components that share no state are explored *side by side* in one run: the MC
module instantiates them with separate variables, a variable `part` says which of
them a behaviour moves, and the others stay in their first state.  The states of
such a run are the sum, not the product, of the states of its parts.  Each of the
properties names the part it speaks of.

Definitions marked "The variant ..." or with "(A variant ...)" are deliberately
wrong forms of the definition next to them.  No specification uses them; they
are put in its place to see that a property notices.

## The models and the code

### newset

`set`, `reverse` and `q` are the array part, the metatable's index and the queue
table, with `NIL` for an absent key.  `Insert`, `Remove`, `Push`, `Pop` are the four
functions.

### The dispatcher

One action is one call of a coroutine, one event handled by a tick, one half of
`socket.select`, or one step of the network or the clock.

- `stack` holds the coroutines that were resumed and have not given way, the
  innermost first: `addthread` resumes a coroutine inside another one.  `pc` and
  `arg` are the call a coroutine is in and its socket; `via` is the socket
  `_doTick` was given, which it closes when the coroutine ends.
- `Receive`, `Send`, `Connect` are a whole iteration of the retry loops of
  `copas.lua:117-186`, with the log entry that is set or cleared.  `send` has an
  extra `yield` in one case of ten, after the attempt and before its evaluation
  (`copas.lua:159-162`); `SendResumed` goes on from there.
- `SelectEnter` and `SelectReturn` are the two halves of `_select`: `now` is read
  before `select` blocks, and the watchdog compares the logs with that old time
  afterwards.  `SelectError` is the error raised by `step` when `select` fails.
- `Watched` is `collect_fd` and `FD_SET`: closed sockets are skipped, and only
  `FdSetSize` sockets fit.
- `first` is the task that `next` yields first; Lua leaves that open but keeps it.
- Handlers are arbitrary: a running coroutine may call anything on the sockets
  the constants `Reads` and `Writes` give it, and end at any time.
- Logs hold ages instead of times; ages beyond the timeout are one value.

### Streams

Bytes are named by their positions, so "in order, each once" can be said without
contents; `text` gives each byte's kind where `recvline` looks at it (CR, LF,
other).  In `ReceiveStream` a step is one call of `buffer_get` with what `recvraw`,
`recvall` or `recvline` does with the block, one byte of `recvline`'s scan, or a
resume.  `base` is where in the stream the call began.  `ret` remembers the last
call and its result, and is what `ByteReader` speaks about.  `receivePartial` of a
line or of everything calls `client:receive` without the part it already has; in
`ByteReader` such a call is *lossy*: it may return the last of its bytes only.
In `SendStream` a step is one `socket_send`; `lastIndex`, `start`, `stop`, `total` are
the variables of `copas.send`, `buffer_meth_send` and `sendraw`.

### The pool of states

`pool` is `app_states[filename]`; `busy` the states whose `data.status` is set, which
is the in-use mark; `env` what `data.env` holds; `main` and `at` the state's coroutine
`main_coro`.  A request gives way while it waits for input (`reading`) and while a
part of the response is written (`sending`); everything between two such points
is one action.  What the application does is any sequence of reads, parts of a
response, errors and ends.  `Enter` is `wsapi_loader_isolated_helper`, with the three
branches of `load_wsapi_isolated` and the one for `reload`.  Rings that nobody
refers to are collected and may be used for new states.

### Rings

`ctl` is the stack of what is active: master code, a slave that runs a string
(`dostring`), master code a slave called (`remotedostring`), a coroutine that was
resumed; each frame names the thread or state it runs on and its environment.
`caller` is the thread a slave's registry remembers, on which its remote strings
run; `height` what `dostring` and `remotedostring` keep on a stack.  A slave's state
is an address: the cache of strings for it is found by that address, which the
allocator may give out again after `lua_close`.  With `Disciplined` scripts neither
close a ring that runs nor enter a ring from two threads at once, the two things
`rings.c` has no test for.

### Sockets

`obj` are the userdata with their class and timeouts, `sys` the system sockets with
what the network has done to them, `call` the call under way.  A call is `Begin`
(which marks the start for the total timeout), attempts that succeed, fail or
would block, waits that end with readiness or at the deadline `TimeoutGet` gives,
and its end.  `Select` collects the dirty objects first.

### Versium

`file` and `index` are a node's data files and its index; an index is the list of
its whole entries and a flag for remaining text.  `node_table` is the table each
store makes of the directory when it is created.  `save_version` is three steps:
`StartSave` (mkdir and the table), `WriteData`, `WriteIndex`.  Nothing else runs
between them, because nothing in them yields; but each may be the last, because a
file cannot be opened (`"open"` in `Fault`, an error is raised) or because the process
ends (`Crash`).  With `"short"` a file gets only a prefix of what is written and
nobody notices (`util.lua:52-59`).  Reads are operators: they change nothing.
A date prefix is a set of times.  `get_history` and `get_complete_history` are
Sputnik's and Saci's use of the histories.

### Node cache

`disk` has the raw values of each node's versions, `cache` what each instance keeps by
id and by id and version.  A request is one action: nothing in it yields.  `Loaded` is
`get_node` with the recursion to prototypes, `Updated` is `Node:update`, which changes the
cached node in place; `Fails` is `decorate_node` raising an error for values it cannot
use.  `Show` resets the cache, `Redirect` and `Save` do not, and neither does a request
that fails.

### The collector

The program (`Mutate`) allocates, stores and drops references in the slots of
running threads, tables, closures, userdata and upvalues, with the barriers of each
store; the collector steps between any two of its operations, in the phases of
`singlestep`.  `mode` is what `luaC_fullgc` and `lua_close` are at.  Sizes, the pace, the
order within the gray lists and the sweep pointer are left out: a step may come at
any time and an object be swept in any order.

### Calls

`cs` is the C stack with an entry for each `luaD_call`, C function, protected call and
resume; `th` the threads with their call information, limits, counts and open
upvalues.  An error is one action that cuts `cs` to the innermost protected call or
resume, as `longjmp` does, and restores what `luaD_pcall` or `lua_resume` restores.  What a
function does next is any of what code or a C function can do.

### Tables and sort

A table is the record of its two parts with `lastfree` and the shared empty hash part;
`map` is what the program has stored.  A traversal goes on while the program
changes existing keys and the collector marks keys dead.  `TableSort` is `auxsort` as an
operator that gives the sorted array or the error, for any relation as order.

### Compiler and machine

A program is the syntax tree the parser recognizes; `LuaCompile` has an operator for
each construct that gives the function state `lparser.c` leaves, over the operators of
`lcode.c`.  Jump lists are sets of instructions where the code chains them through the
instructions' own fields.  The machine is one action per instruction.  The same
programs are evaluated by `LuaReference`, which knows nothing of registers or jumps,
and what was shown (`emit`), returned and raised must agree.

### Lexer and chunks

`Lexer` gives a token at a time with one of look-ahead; `Tokens` defines what tokens a text
has.  `Loader` dumps a function to bytes, puts a first line before it, lets a reader
give the bytes in any pieces, and loads it.

### Libraries

- `LuaStrings` has a search as one job; `LuaPatterns` says in which ways the items of a
  pattern can take characters and which way comes first.
- `LpegCode` has an operator per pattern constructor that gives its code after LPeg's
  optimizations, and the verifier; `Lpeg` runs the code one instruction per action.
- `Mime` gives chunks of any size to a chain of filters, as `ltn12` does.
- `Files` has the handles and the streams of the C library under them; `Packages` the frames
  of nested `require`s; `Calendar` goes through the days of years and turns seconds into
  dates and back with the arithmetic of `lwince.c`.

## Runs

All bounds are constants of the configurations.

| Run | Instance | States | Shows |
|---|---|---|---|
| `stores` | newset: 3 values, 2 items, queues of up to 2; Versium: 2 stores, ids `/` and `%2F`, 2 data, 3 versions, 2 times, failures and crashes; node cache: 1 instance, a chain of three nodes, 2 fields, a wrong value, 2 edits | 127 thousand | `newset` implements `FifoSet`; versions are kept whatever fails; reads, histories and pages show what is stored; a save changes what it was given |
| `copas_relay` | one server, a connection read by its handler and a thread, a second socket the thread opens and sends to; `fd_set` of 2; `select` may fail | 928 thousand | queues and coroutines in step, waiting sockets are watched, no handler outlives its coroutine, the server stays and keeps its place, finished is closed |
| `copas_timing` | one connection read and written by its handler and a thread, `fd_set` of 1, timeout of one clock step; and two connections with a handler each, `step` without timeout | 67 thousand | everybody has a log entry, nobody is woken early, everybody is woken; ready sockets and incoming connections are served |
| `streams` | all streams of 3 bytes over {CR, LF, other}, both functions, the patterns line, all, 0 and 2; buffer of 2; a string of 4, indices inside, at and beyond both ends and negative, steps of 2, room for 3 | 198 thousand | `ByteReader`; waits only for the network; sends in order with truthful results; both return |
| `hosts` | pool: 2 requests, 3 states, the file changes twice, with and without reload; Rings: 2 userdata, 2 addresses, a coroutine, depth 5; sockets: 2 objects, 2 system sockets, TCP and UDP, timeouts of 0, 1, 2 and none | 1.8 million | exclusive use, states come back; remote strings run where they belong; one owner per socket; timeouts are kept |
| `collector` | three heaps of 4 to 5 objects: weak table and userdata; coroutine, closure and upvalue; three strings that share chains | 282 thousand | nothing reachable is freed, marks and barriers are in order, finalizers called once and for garbage only, garbage is collected |
| `lua` | programs, texts, chunks, threads, tables, arrays and buffers of `MCLua` | 676 thousand | the properties of the core's parts |
| `libraries` | patterns, subjects, strings, filters, files, packages and dates of `MCLibraries` | 783 thousand | the properties of the libraries |
| `versium_gap` | 1 store, 4 versions | | *violated*: a limited history has a gap |
| `cache_shared` | 2 instances, 1 node | | *violated*: an old version is shown |
| `collector_close` | 2 userdata, finalizers that step the collector in `lua_close` | | *violated*: what is in use is freed |
| `calendar_leap` | the last second of every day until 2037 | | *violated*: the last day of a leap year is a day of the next |

Why the bounds are enough to be worth checking:

- *newset*: a `remove` has three cases (absent, last, elsewhere) and three values meet
  all of them, with the moved element being neither the one removed nor the first.
- *Copas*: the hazards need two coroutines at one socket, two sockets in one array next
  to a server, or a socket beyond the capacity (`FdSetSize = 1`).  One unread fragment
  (`MaxData`) tells readable from not readable.
- *Receive*: three bytes and a buffer of two give a line that ends inside, at and
  beyond the edge of a block, a pattern that is completed by buffered bytes, and a
  call cut by a timeout at every position.
- *Send*: a range of four in steps of two with room for three has whole, partial and
  refused steps in every order.
- *Pool*: two requests and a file that changes twice have states of two generations in
  use at the same time.  With three states the requests may run out of them when empty
  responses lose some; the run allows that deadlock of the bound.
- *Rings*: depth 5 has master, slave, master for the slave, the other slave, and master
  again; two addresses for two userdata are used again after a close.
- *Sockets*: two objects and two system sockets let an accepted socket take the number
  of one that was closed; a block timeout of 1 in a total of 2 runs out in the second wait.
- *Versium*: three versions make a limit of one cut something off although one entry too
  many is returned; two stores disagree about which nodes exist.  The two ids are a
  name and an id that looks like it; the assumption `NamesAreIds` of `MCStores` is
  evaluated for every id of up to four of the characters the escaping is about, and
  `NamesStandForIds` proves it for ids of any length.
- *Node cache*: a prototype of a prototype is the shortest chain in which the
  prototype itself inherits; two fields tell what a save was given from what it found.
- *Collector*: every kind of object is in one of the heaps, with what refers to it and
  what it refers to; a cycle through an upvalue or a userdata fits.
- *Calls*: four C levels and call information for three and four calls reach every limit
  within and beyond its slack; a coroutine inside a protected call inside a resume fits.
- *Programs*: they are put together of every pair of the forms the code generator treats
  differently (conditions with jumps in both directions, assignments whose parts depend
  on each other, loops that capture locals and leave in the middle, open results,
  constructors beyond one flush), with few registers for constants (`MaxIndexRK`) so that the
  other branch is taken too.
- *Patterns of LPeg*: every constructor around every other, and the shapes the optimizer
  looks for, on subjects of every text of up to three characters.
- *Dates*: every day until the end of the 32-bit `time_t`.

`SYMMETRY` is used where stores, data or values are interchangeable and the run
checks no liveness.

## Fairness

- *Copas.*  The program calls `step` in a loop (`copas.lua:429-433`, `xavante.start`), so an
  enabled step of the dispatcher is taken: `SF_vars(Dispatch)`, strong because it is
  disabled again and again while coroutines run.  The clock runs: `WF_vars(ClockTick)`.
  A cooperative scheduler can do no more than its coroutines let it: each coroutine
  that has control makes its next call (`WF_vars(Handler(co))`), and one that gets control
  again and again sooner or later gives it back (`SF_vars(Relinquish(co))`).  The code
  has only one measure for that, the random extra yield of `send`; `receive` has none.
  Nothing is assumed of the network.
- *Receive.*  The code between two yields runs to its end; a coroutine with a
  readable socket is resumed.  Nothing is assumed about arrival: the property is about
  what has arrived.
- *Send.*  The same, and the peer goes on reading (`WF_vars(Drain)`), without which
  no send could be expected to return.
- *Collector.*  A program that goes on allocating steps the collector again and again,
  unless it ends (`Fairness` in `Collector`).
- *LPeg.*  The machine runs to its end: `WF(Matching)`.

The other parts have no fairness: their properties are about safety.

## Proofs

`tlapm` proves every theorem to its last leaf.  The theorems are about the
specifications the runs check, for every value of the constants that satisfies the
named assumptions of the modules; where a theorem needs more, it says so in its
`ASSUME`.  Theorems about a component that shares a run with others are stated for that
run's specification, and say what holds while that component moves.

| Module | About | Properties of the runs that it proves |
|---|---|---|
| `SetOpsTheorems` | what insert, remove, append and tail do to the elements of a sequence without duplicates | |
| `StoresProofs` | newset, Versium, the node cache | `ReverseIsInverse`, `ImplementsFifoSet`, `VersionsSound`, `ShownSound`, `ImplementsVersionedStore`, `StepsKeep`: all of `stores` |
| `CopasProofs` | the dispatcher | `Consistent`, `Watching`, `FinishedIsClosed`, `ServerKeepsPlace`, `WatchdogInTime` |
| `SendProofs`, `StreamsProofs` | the two directions of a stream | `SendSound`, `WaitsOnlyForNetwork`, `ImplementsByteReader` |
| `HostsProofs` | the pool, Rings, the sockets | `Exclusive`, `NoLeak`, `RunsInPlace`, `SocketsSound`, `SelectsSound`: all of `hosts` |

### The inductive invariants

*newset* (`IInv`): types, `reverse` is the inverse of `set`, and a queue that exists is
not empty, because `pop` drops it with its last item.  Each operation maps to one of
`FifoSet` or to a stutter.

*Dispatcher*: `TypeOK /\ Queues /\ Arrays /\ Lives`.  `Queues` has, next to what
`Consistent` says, that a coroutine inside a call that can wait is one of the socket's
users; without it a queue could hold a stranger, and nothing would follow for sole
users.  `Arrays` says that the two arrays have no duplicates, because `remove` takes
out one occurrence.  `Lives` says that the handler of a connection that was not accepted
yet does not run, so that `_accept` starts no coroutine twice.  `FinishedIsClosed` needs
`Closing` besides: a handler that waits on no socket but its own is always resumed
through that (`OwnSocket`), because only a socket that a coroutine opens itself is
ever connected (`Connecting`).  The watchdog needs `Guarding`: the queue of a socket with
one user has an entry in the log or an event that is still to be handled
(`ReadArmed`, `WriteArmed`), events are left only between `select` and the end of the task
they are for (`EventsOfStep`), and what was overdue before `select` blocked remains so
(`LateBeforeSelect`).  There is one
lemma per action; what several actions share (`QueuesYieldReading`,
`ArraysDequeueReader`, ...) comes first.

*Send* (`IInv`): how far `sent` reaches relative to `start`, `total` and `lastIndex` in each
place of the code (`Trying`, `Sending`, `Resting`).

*Receive* (`ReceiveInv`): in a call (`InCall`) what has been collected are the bytes from the
beginning of the call, or of a later attempt of a lossy one, up to the first byte of
the buffer (`Taken`), as many as were consumed if the pattern is a number (`Counted`),
and they do not complete the pattern yet (`Short`); while it waits (`InWait`) the buffer is
empty.  `WaitsOnlyForNetwork` follows from the last two, the refinement of `ByteReader` from
the first.

*Pool* (`PoolInv`): types and `Exclusive`.  `StepIn` says what a step of one request leaves
alone, and each action is one such step.  The argument that matters is `EnterStep`: a
state that is not marked has no request in it, because every request's state is
marked, and a new state has none because nobody holds it.  This needs `~NoStatus`: an
application that returns no status unmarks a state while it is in it.

*Rings* (`SlavesInv`): every frame fits the one under it (`Stacked`: a slave's string was
started from there, a remote string by the slave there), every open ring has a state
of its own, and what is compiled for it has its environment (`Housed`), and a stack's
height is the number of calls that are active on it (`Balanced`).  It needs `Disciplined`.

*Sockets* (`SocketsInv`): each system socket in use is one object's (`OneEach`), the object of
the call under way has a class and its deadline is within its timeouts, and a
`select` that waits has reported nothing yet (`Calling`).

*Versium* (`VersionsInv`): every entry of an index has a file with its data and the
versions count down to 1 (`Whole`); a save that is under way has written what its
place says (`Saving`); what was saved is in the index (`Kept`).  With `AllKnown`, that only
directories of nodes exist, the stores' reads agree.  All this needs that no write is
cut short (`"short" \notin Fault`); with such writes it is false (see below).

*Nodes in memory* (`PagesInv`): an entry that can be shown has the raw values stored
last, an entry of a version has that version's, and with a node its prototype is in
the cache (`Agrees`).  An entry that cannot be shown may differ: a save or preview that
fails has updated it in place.  It needs one instance (`OneInstance`); with two,
`cache_shared` shows that it is false.

### Recursive definitions

What a recursively defined function computes for every input is proved by
descent: the set of the numbers for which the claim fails has no least element
(`LeastNumber`), and a function that satisfies the recursive equation is built up
from its restrictions before the equation is used (`ScanExists`, `ParseExists`,
`LatestIs`, `NeededExists`).

- `NamesStandForIds`: escaping replaces one character by three, in an order in which no
  replacement touches what an earlier one made, and unescaping undoes them in the
  opposite order (`Undo`, used three times).  So a directory's name gives its id back,
  for ids of any length, and two nodes never share a directory.
- `ParseIs`: what the loop of `parse_history` collects after each entry; from it
  `HistoriesSound` and, with the cardinalities of what is cut off at the limit,
  `CompleteHistorySound`.
- `LatestSound`, `NeededClosed`: what the recursion from a node to its prototypes makes,
  by the distance from the root.  `NodeCacheAssumption` has such a distance: with a
  cycle of prototypes the code recurses without end.

### What stays with TLC

- Liveness under fairness (`Served`, `BothReturn`, `GarbageIsCollected`, `MatchEnds`): outside of
  what the prover can do, as is `ENABLED`.
- The compilers, machines, tables, strings and the other parts of the core and the
  libraries: their modules use recursive operators over syntax and patterns, which
  the prover's SMT backend does not take.
- The collector, for the same reason: `Closure` and the propagation of marks are
  recursive operators.

## Where code and documentation differ

Found while modelling and shown by a run:

- `versium_gap`: Sputnik enforces the limit of a history by removing entries while it
  counts up (`sputnik/init.lua:556`).  Versium returns one entry more than the limit, so the
  entry at the limit goes and the one behind it stays: the version the diff action
  calls "the immediately previous version" (`sputnik/actions/wiki.lua:832-833`) may not be.
- `cache_shared`: with two application states a page is shown in an old version after
  the other one saved it, because redirects leave the cache as it is
  (`sputnik/init.lua:839`).
- `collector_close`: `lua_close` calls the finalizers with the collector in whatever phase
  it was (`lstate.c:203`).  A finalizer that steps the collector goes on with a cycle in
  which a black object may point at a userdata `GCTM` made white again; it is freed in
  use, against `checkliveness` (`lobject.h:111-113`).
- `calendar_leap`: on the last day of a leap year `gmtime` gives the first day of the next
  (`lwince.c:475`).

Read in the code; no run is about them.

*Copas, LuaSocket*

- `receivePartial` of a line returns the end of the line only if a timeout came in between
  (`copas.lua:137`, against the comment at 131-132); `receive("*a")` reports `closed` although
  everything was read if the last bytes came before a timeout (`buffer.c:211`).
- An empty datagram makes `sendto` return 0, which is reported as `refused` (`udp.c:106-108`).
- After an error `select` with dirty objects returns the sets unchanged, and
  `socket.select({}, {})` without a timeout sleeps for (DWORD)(-1000) milliseconds.
- `opt_ip_multicast_ttl` sets `SO_LINGER`.  `waitfd` restarts the block timeout at each wake.

*WSAPI, Rings*

- An application that returns a response without any part leaves its state marked as
  in use for ever (`wsapi/ringer.lua:144-145`): the exception in `NoLeak`.  One that returns no
  status loses its mark while the response is sent (`ringer.lua:89`): `NoStatus`.
- A script that closes a ring from inside, or enters it from two threads, has its
  strings run elsewhere than `rings.c:156` says: `Disciplined`.

*Versium, Saci, Sputnik*

- `write_file` truncates and rewrites the index in place and ignores what `write` and `close`
  return (`versium/util.lua:52-59`).  A short write loses saved versions and is reported as
  a success.
- `parse_history` returns limit + 1 entries (`versium/filedir.lua:84`, documented at 247 as "the
  max number of history items to return").
- `node_exists` does not know nodes that another store created (`versium/filedir.lua:131`,
  documented at 125).  `get_node_history` returns nil for a node that does not exist (253; a
  table according to 243-248).
- The complete history takes the first `limit` ids before it sorts (`saci.lua:245`); with more
  nodes than that, recent edits are missing.  `CompleteHistoryIsNewest` is stated for no
  more nodes than the limit.
- A directory that was made before a save failed makes `get_node` raise an error where a
  missing node gives nil.
- A save merges its fields into the cached node (`sputnik/actions/wiki.lua:181`), so with two
  application states it can write back what the other one replaced; a cached node
  keeps what it inherited when its prototype is saved; a preview that fails leaves its
  values in the cache (219).

*Lua core and libraries*

- `((1 or nil) and false) and true` gives 1: a jump over a constant that was folded into a
  list keeps its value (`lcode.c:59-66`, `548`).
- `sort` with an order function that contradicts itself reads and compares beyond the
  array before it notices (`ltablib.c:218-219`).
- `check_next` takes the end of a text for one of the characters it looks for, because
  `strchr` finds the terminating zero (`llex.c:162`).
- `luaL_unref` of a reference that is not in use makes the free list a loop.
- `find` with `)` or `]` alone searches for the plain character (`lstrlib.c`, `SPECIALS`).
- A chunk that called `module` and then failed leaves its half-made table in
  `package.loaded`, so the next `require` does not report the error (`loadlib.c:461`).
- LPeg: an optimization is meant not to cross jump targets (`lpeg.c:786`), but tests are not
  seen as jumps (82).  `#p` of one character at the end of the subject,
  `P(1) * P(1)^-1`, and a choice that begins with several `any` are optimized wrongly; the
  patterns explored avoid them.

*Windows CE layer*

- `localtime` is right for the current time only, an unknown time zone loses its bias,
  `mktime` takes its fields for UTC, months beyond 12 subtract days, and the arithmetic
  ends with 2038.
- `os.remove` always succeeds, `setvbuf` always fails, `tmpnam` repeats after 65 seconds, `strerror`
  overwrites `errno`, `chdir` takes only directories without other attributes, `popen` fails.
- `luaL_loadfile` of a binary chunk by a bare name opens it relative to the emulated
  current directory and reopens it without (`lwince.c:693`).

## Not modelled

- *Xavante, CGILua*: the connection loop and its headers, sessions, request parsing.
- *coxpcall*: transparent for the dispatcher, except that `coroutine.running` inside
  `copcall` is the inner coroutine (a hazard at `copas.lua:226`).
- *Start-up, shell, tray programs*: straight-line code without state over time.
- *Text*: markup, templates, diffs, page generation, formatting and conversion of numbers.
- *Lua*: metatables, division and power, comparison of strings, line information, limits of
  the parser; the sweep pointer, sizes and pace of the collector, metatables as objects,
  C closures' upvalues, a full collection in a finalizer called by `lua_close`.
- *LPeg*: string and query captures, extra arguments, spans, locale, printing, functions
  at match time that return a position, a start other than the first character.
- *LuaSocket*: options, name resolution, contents of datagrams, the protocols on top.
- *LuaFileSystem, md5, base64*: pure functions and single file-system calls.
- *Contents of files and names as text*, except the escaping of ids.  The file system of
  Windows CE ignores case; two ids that differ in case only would share a directory.

Bounds in the models that the code does not have, each a guard of the action that
would exceed it: `MaxQueue` (newset), `MaxData` (Copas), `MaxText`, `MaxRoom` (streams),
`MaxMtime` (pool), `MaxVersion`, `MaxTime` (Versium), `MaxEdits` (node cache), and the depths, steps
and lengths of the MC modules for the core and the libraries.

## Plan

Next:

1. `HeapSound` of the collector as a theorem: `Closure` and the propagation of marks have to
   be rewritten without recursive operators (an intersection of closed sets; a
   function of the natural numbers) before the tri-colour argument can be made:
   black points at white nowhere but at what is gray again or in the list for the
   atomic phase.
2. `UnwindsToInnermost` and `InStep` of `Calls`, `ModulesLoadOnce` of `Packages`: inductive invariants over a
   stack of frames, like those of `Rings`.
3. Xavante's connection loop (`xavante/httpd.lua:40-65, 228-293`): responses answer requests in
   order, and a kept connection is at the beginning of a request.
4. Names that ignore case in `FileDirVersium`.
