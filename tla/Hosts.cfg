SPECIFICATION MCSpec
CONSTANTS
  Request = {q1, q2}
  Ring = {r1, r2, r3}
  MaxMtime = 2
  Reload = {TRUE, FALSE}
  NoStatus = FALSE
  NIL = NIL
  RingObjs = {"r1", "r2"}
  Addrs = {"a", "b"}
  Coroutines = {"co"}
  Envs = {"e1", "e2"}
  Strings = {"x"}
  MaxDepth = 5
  Disciplined = TRUE
  o1 = o1
  o2 = o2
  Objs = {o1, o2}
  Fds = {1, 2}
  Kinds = {"tcp", "udp"}
  Timed = {o1}
  Blocks <- MCBlocks
  Totals <- MCTotals
  Selects <- MCSelects
  MaxTime = 3
  MaxPending = 1
INVARIANTS Exclusive NoLeak RunsInPlace SocketsSound
 
\* States that an empty response leaves marked as in use are not given out again:
\* with a bounded number of states the requests may run out of them.
CHECK_DEADLOCK FALSE
