------------------------------- MODULE MCCopas ------------------------------
(***************************************************************************)
(* Small instances of the dispatcher: one server, one or two connections.  *)
(*                                                                         *)
(* A behaviour is of the first instance (part is timed), whose parameters  *)
(* the configuration gives, or of a second, Blocking, whose select waits   *)
(* without a timeout and whose two connections have each a handler.        *)
(***************************************************************************)
EXTENDS Copas

CONSTANTS v, c1, c2, t

VARIABLE part

MCServer == {v}
One      == {c1}
Two      == {c1, c2}
OnePort  == [c \in One |-> v]
TwoPort  == [c \in Two |-> v]

Pairs(s, cs) == {<<c, s>> : c \in cs}

\* One connection: its handler receives and a thread sends.
DuplexReads  == Pairs(c1, {c1})
DuplexWrites == Pairs(c1, {t})

\* A connection from which its handler and a thread receive; the thread sends what it
\* gets to the socket c2, which it opens itself.
RelayReads  == Pairs(c1, {c1, t})
RelayWrites == Pairs(c2, {t})

\* Two connections, each used by its own handler.
Blocking == INSTANCE Copas WITH
  Client <- Two, Port <- TwoPort, Outgoing <- {}, Thread <- {},
  Reads <- Pairs(c1, {c1}) \cup Pairs(c2, {c2}), Writes <- {},
  FdSetSize <- 4, HasTimeout <- FALSE

all == <<part, vars>>
Timed(A) == part = "timed" /\ A /\ UNCHANGED part
Blocks(A) == part = "blocking" /\ A /\ UNCHANGED part

\* The first instance alone.
RelayInit == part = "timed" /\ Init
RelaySpec == RelayInit /\ [][Timed(Next)]_all

\* Both, with the fairness of each.
MCInit == \/ part = "timed" /\ Init
          \/ part = "blocking" /\ Blocking!Init
MCNext == Timed(Next) \/ Blocks(Blocking!Next)

Handles(co, cb) == Timed(Handler(co)) \/ Blocks(Blocking!Handler(cb))
GivesBack(co, cb) == Timed(Relinquish(co)) \/ Blocks(Blocking!Relinquish(cb))
MCSpec ==
  /\ MCInit /\ [][MCNext]_all
  /\ SF_all(Timed(Dispatch) \/ Blocks(Blocking!Dispatch))
  /\ WF_all(Timed(ClockTick) \/ Blocks(Blocking!ClockTick))
  /\ WF_all(Handles(c1, c1)) /\ SF_all(GivesBack(c1, c1))
  /\ WF_all(Handles(t, c2)) /\ SF_all(GivesBack(t, c2))

\* A waiting coroutine is resumed: sooner or later if step has a timeout, and if select
\* blocks when its socket is ready; and who connects is accepted.
Served ==
  /\ \A co \in {c1, t} : (part = "timed" /\ Suspended(co)) ~> co \in Range(stack)
  /\ \A co \in Two : (part = "blocking" /\ Blocking!Ready(co)) ~>
       \/ co \in Range(stack)
       \/ part = "blocking" /\ \E s \in Two : arg[co] = s /\ sk[s] = "closed"
  /\ \A s \in Two : (part = "blocking" /\ sk[s] = "backlog" /\ v \in servers) ~> (part = "blocking" /\ sk[s] # "backlog")
=============================================================================
