----------------------------- MODULE MCCollector -----------------------------
EXTENDS Collector, TLC

CONSTANTS main, globals, table, weak, udata, other, s1, s2, s3, coro, clos, up

MCObj == {main, globals, table, weak, udata, other, s1, s2, s3, coro, clos, up}
MCKind == main :> "thread" @@ globals :> "table" @@ table :> "table" @@ weak :> "table"
          @@ udata :> "udata" @@ other :> "udata" @@ s1 :> "string" @@ s2 :> "string"
          @@ s3 :> "string" @@ coro :> "thread" @@ clos :> "closure" @@ up :> "upval"
MCMode == [o \in MCObj |-> IF o = weak THEN {"v"} ELSE {}]
MCKeys == {table}
MCHash == s1 :> 0 @@ s2 :> 1 @@ s3 :> 3
CloseWorlds == {{main, globals, udata, other}}
MCWorlds == {{main, globals, weak, udata}, {main, globals, coro, clos, up},
             {main, globals, s1, s2, s3}}
=============================================================================
