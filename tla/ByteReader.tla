----------------------------- MODULE ByteReader -----------------------------
(***************************************************************************)
(* What a caller of a wrapped socket's receive relies on: each call takes  *)
(* the next bytes of the stream, up to the end its pattern asks for, and   *)
(* returns them in order and without loss, however the network cut them    *)
(* into fragments and however often the call had to wait.  A lossy call,   *)
(* receivePartial of a line or of all bytes, may return no more than the   *)
(* last of the bytes it took.                                              *)
(*                                                                         *)
(* Bytes are named by their positions in the stream; text gives the kind   *)
(* of each.                                                                *)
(***************************************************************************)
EXTENDS Integers, Sequences, Functions

CONSTANTS MaxText,   \* length of the longest stream
          Calls      \* the calls: records of a function and a pattern

Kind == {"CR", "LF", "other"}

VARIABLES text, pos,
          ret        \* the last call that returned and its result

vars == <<text, pos, ret>>

\* The bytes of i+1..j that p keeps: a line is returned without CR and LF.
Kept(p, i, j) == {b \in i+1..j : p.kind = "line" => text[b] = "other"}

\* data lists these bytes, each once and in the order of the stream.
Lists(data, p, i, j) == /\ Range(data) = Kept(p, i, j)
                        /\ \A k, l \in DOMAIN data : k < l => data[k] < data[l]

NoLine(i, j) == \A b \in i+1..j : text[b] # "LF"

\* i+1..j is what p asks for; all ends wherever the peer stopped.
Whole(p, i, j) == CASE p.kind = "line" -> i < j /\ text[j] = "LF" /\ NoLine(i, j - 1)
                    [] p.kind = "raw"  -> j - i = p.n
                    [] p.kind = "all"  -> TRUE

\* i+1..j stops short of it.  (receive(0) may fail although nothing is missing.)
Short(p, i, j) == CASE p.kind = "line" -> NoLine(i, j)
                    [] p.kind = "raw"  -> p.n > 0 => j - i < p.n
                    [] p.kind = "all"  -> TRUE

Lossy(c) == c.fn = "receivePartial" /\ c.pat.kind # "raw"

NoCall   == [fn |-> "none", pat |-> [kind |-> "none", n |-> 0]]
NoResult == [call |-> NoCall, err |-> "none", data |-> <<>>]

Init == /\ text \in [1..MaxText -> Kind]
        /\ pos = 0
        /\ ret = NoResult

Read(c) == \E begin, end \in pos..MaxText :
             /\ begin = pos \/ (Lossy(c) /\ begin <= end)
             /\ pos' = end
             /\ ret'.call = c
             /\ Lists(ret'.data, c.pat, begin, end)
             /\ IF ret'.err = "done" THEN Whole(c.pat, pos, end) ELSE Short(c.pat, pos, end)
             /\ ret'.err = "timeout" => c.fn = "receivePartial" /\ ret'.data # <<>>
             /\ UNCHANGED text

Next == \E c \in Calls : Read(c)

Spec == Init /\ [][Next]_vars
=============================================================================
