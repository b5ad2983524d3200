----------------------------- MODULE NodeCache ------------------------------
(***************************************************************************)
(* The nodes a Sputnik instance keeps between requests: Saci's cache, the  *)
(* inheritance of fields from prototypes (saci/node.lua) and how Sputnik   *)
(* handles a request (sputnik/init.lua, sputnik/actions/wiki.lua).         *)
(*                                                                         *)
(* Every application state has an instance; they share the storage, where  *)
(* all nodes have a version before the first request.  A request is        *)
(* handled without giving way to another.  Fields follow the fallback      *)
(* rule: a node without a value of its own has that of its prototype.      *)
(***************************************************************************)
EXTENDS Integers, Sequences, FiniteSets, SequencesExt

CONSTANTS
  Ring, Node, Field, Value,
  Proto,        \* the prototype of a node, NIL for the root
  Wrong,        \* values with which a node cannot be shown (decorate_node raises)
  MaxVersion,   \* bound on the versions of a node
  NIL

Values == [Field -> Value \cup {NIL}]
Key    == Node \X (0..MaxVersion)
Entry  == [raw : Values, inherited : Values]

\* No node is among its own prototypes: apply_inheritance would recurse without end.
NodeCacheAssumption ==
  /\ IsFiniteSet(Node)
  /\ Proto \in [Node -> Node \cup {NIL}]
  /\ \E n \in Node : Proto[n] = NIL
  /\ \E depth \in [Node -> 0..Cardinality(Node)] :
       \A n \in Node : Proto[n] # NIL => depth[Proto[n]] < depth[n]
  /\ Wrong \subseteq Value
  /\ MaxVersion \in Nat \ {0}
  /\ NIL \notin Node \cup Value \cup Nat \cup Entry

VARIABLES
  disk,    \* the raw values of each node's versions
  cache,   \* of each instance: the nodes by id (version 0) or id and version
  page     \* the node shown last and its own values, NIL if that raised an error

vars == <<disk, cache, page>>

Empty  == [k \in Key |-> NIL]

Init == /\ \E good \in Value \ Wrong :
             disk = [n \in Node |-> << [f \in Field |-> IF Proto[n] = NIL THEN good ELSE NIL] >>]
        /\ cache = [r \in Ring |-> Empty]
        /\ page = NIL
-----------------------------------------------------------------------------
Stored(n, v) == IF v = 0 THEN Last(disk[n]) ELSE disk[n][v]

\* inheritance_rules.fallback, field by field.
Inherit(raw, above) == [f \in Field |-> IF raw[f] = NIL THEN above[f] ELSE raw[f]]

\* apply_inheritance.  What the prototype hands on are its own inherited values;
\* those of the root are its raw values.
Made(n, raw, protos) ==
  [raw |-> raw, inherited |-> IF Proto[n] = NIL THEN raw
                              ELSE Inherit(raw, protos[Proto[n]].inherited)]

\* The nodes as get_node makes them, from the cache c and what is stored.
Latest(c) ==
  LET latest[m \in Node] == IF c[<<m, 0>>] # NIL THEN c[<<m, 0>>]
                            ELSE Made(m, Stored(m, 0), latest)
  IN  latest

\* The prototypes that are made with a node that is not in the cache c.
Needed(c, n) ==
  LET needed[m \in Node] == IF c[<<m, 0>>] # NIL \/ Proto[m] = NIL THEN {m}
                            ELSE {m} \cup needed[Proto[m]]
  IN  IF Proto[n] = NIL THEN {} ELSE needed[Proto[n]]

\* (The variant that keeps the node only.)
LoadedBare(c, n, v) ==
  IF c[<<n, v>>] # NIL THEN c ELSE [c EXCEPT ![<<n, v>>] = Made(n, Stored(n, v), Latest(c))]

\* The cache c after get_node: a node that is not there is made of what is stored,
\* and with it its prototypes, as far as they are not there either.
Loaded(c, n, v) ==
  LET latest == Latest(c)  needed == Needed(c, n) IN
  IF c[<<n, v>>] # NIL THEN c
  ELSE [k \in Key |-> IF k = <<n, v>> THEN Made(n, Stored(n, v), latest)
                      ELSE IF k[2] = 0 /\ k[1] \in needed THEN latest[k[1]]
                      ELSE c[k]]

\* (The variant that forgets the values that are not given.)
SetOnly(raw, f, d) == [g \in Field |-> IF g = f THEN d ELSE NIL]

\* Node:update changes the node in place, in the cache, too.
Set(raw, f, d) == [raw EXCEPT ![f] = d]

\* (The variant that updates a copy.)
UpdatedCopy(c, n, f, d) == c

Updated(c, n, f, d) ==
  [c EXCEPT ![<<n, 0>>] = Made(n, Set(@.raw, f, d), [m \in Node |-> c[<<m, 0>>]])]

Fails(e) == \E f \in Field : e.inherited[f] \in Wrong

Keep(r, c) == cache' = [cache EXCEPT ![r] = c]

\* (The variant that sets the cache of the class, not of the instance.)
ResetClass(r, c) == cache' = Empty

\* reset_cache, at the end of a request that neither redirects nor fails.
Reset(r, c) == Keep(r, Empty)

\* show and the other actions that return a page.
Show(r, n, v) ==
  /\ v \in 0..Len(disk[n])
  /\ LET c == Loaded(cache[r], n, v)  e == c[<<n, v>>] IN
     IF Fails(e)
       THEN /\ page' = [node |-> n, version |-> v, raw |-> NIL]
            /\ Keep(r, c)
       ELSE /\ page' = [node |-> n, version |-> v, raw |-> e.raw]
            /\ Reset(r, c)
  /\ UNCHANGED disk

\* Requests that redirect and save nothing (cancel, a login, an id that is not
\* written as it should be), and those that fail after they got the node.
Redirect(r, n) ==
  /\ Keep(r, Loaded(cache[r], n, 0))
  /\ page' = NIL
  /\ UNCHANGED disk

\* save: update the node, decorate it, save it and redirect to it.
Save(r, n, f, d) ==
  /\ Len(disk[n]) < MaxVersion
  /\ LET c == Loaded(cache[r], n, 0)
         u == Updated(c, n, f, d)
     IN \/ Fails(c[<<n, 0>>]) /\ Keep(r, c) /\ UNCHANGED disk
        \/ ~Fails(c[<<n, 0>>]) /\ Fails(u[<<n, 0>>]) /\ Keep(r, u) /\ UNCHANGED disk
        \/ /\ ~Fails(c[<<n, 0>>]) /\ ~Fails(u[<<n, 0>>])
           /\ Keep(r, u)
           /\ disk' = [disk EXCEPT ![n] = Append(@, Set(c[<<n, 0>>].raw, f, d))]
  /\ page' = NIL

\* preview: update the node, decorate it and show it.
Preview(r, n, f, d) ==
  /\ LET c == Loaded(cache[r], n, 0)
         u == Updated(c, n, f, d)
     IN \/ Fails(c[<<n, 0>>]) /\ Keep(r, c)
        \/ ~Fails(c[<<n, 0>>]) /\ Fails(u[<<n, 0>>]) /\ Keep(r, u)
        \/ ~Fails(c[<<n, 0>>]) /\ ~Fails(u[<<n, 0>>]) /\ Reset(r, u)
  /\ page' = NIL
  /\ UNCHANGED disk

\* The instance is made anew: reload, or a new application state.
Start(r) == /\ Keep(r, Empty)
            /\ page' = NIL
            /\ UNCHANGED disk

Next == \E r \in Ring :
          \/ \E n \in Node, v \in 0..MaxVersion : Show(r, n, v)
          \/ \E n \in Node : Redirect(r, n)
          \/ \E n \in Node, f \in Field, d \in Value : Save(r, n, f, d) \/ Preview(r, n, f, d)
          \/ Start(r)

Spec == Init /\ [][Next]_vars
-----------------------------------------------------------------------------
TypeOK ==
  /\ \A n \in Node : disk[n] \in Seq(Values) /\ Len(disk[n]) \in 1..MaxVersion
  /\ cache \in [Ring -> [Key -> Entry \cup {NIL}]]
  /\ page # NIL => page.node \in Node /\ page.version \in 0..MaxVersion

\* A cached node's prototype is cached, too, so that updating the node gets it from
\* the same cache (saci/node.lua:170, saci.lua:148-157).
ProtosCached ==
  \A r \in Ring, n \in Node, v \in 0..MaxVersion :
    cache[r][<<n, v>>] # NIL /\ Proto[n] # NIL => cache[r][<<Proto[n], 0>>] # NIL

\* A page shows the node's own values as they are stored, the latest ones unless it
\* is of a version: "the desired version of the node (defaults to latest)"
\* (saci.lua:134).
ShownIsStored ==
  page # NIL /\ page.raw # NIL => page.raw = Stored(page.node, page.version)

\* "request.params fields are used to update the node" (sputnik/actions/wiki.lua:174):
\* a version that is saved differs from the one before it in the fields given only.
SavesOnlyGiven ==
  \A r \in Ring, n \in Node, f \in Field, d \in Value :
    Len(disk'[n]) > Len(disk[n]) /\ Save(r, n, f, d) =>
      \A g \in Field \ {f} : Last(disk'[n])[g] = Last(disk[n])[g]
SaveKeepsOthers == [][SavesOnlyGiven]_vars
=============================================================================
