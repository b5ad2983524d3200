------------------------------- MODULE MCStreams -------------------------------
(***************************************************************************)
(* The two directions of a stream, each with its own side of the network:  *)
(* a behaviour moves one of them (part), the other stays in a first state. *)
(***************************************************************************)
EXTENDS SendStream

CONSTANTS MaxText, BufSize, Calls, Count      \* of receiving; Count: the numbers used as patterns

VARIABLES part, text, arrived, peer, bfirst, blast, phase, call, base, out, had, result

Receiving == INSTANCE ReceiveStream WITH conn <- peer, pc <- phase, ret <- result

ASSUME ReceivingAssumption == Receiving!ReceiveStreamAssumption

received == <<text, arrived, peer, bfirst, blast, phase, call, base, out, had, result>>

MCInit ==
  /\ part \in {"send", "receive"}
  /\ Init /\ (part = "receive" => from = 1 /\ to = -1)
  /\ Receiving!Init
  /\ part = "send" => text = [i \in 1..MaxText |-> "LF"] /\ call = CHOOSE c \in Calls : TRUE

Sends(A) == part = "send" /\ A /\ UNCHANGED <<part, received>>
Receives(A) == part = "receive" /\ A /\ UNCHANGED <<part, vars>>

MCNext == Sends(Next) \/ Receives(Receiving!Next)

\* The fairness of both directions.
MCSpec ==
  /\ MCInit /\ [][MCNext]_<<part, vars, received>>
  /\ WF_<<part, vars>>(Sends(Work)) /\ WF_<<part, vars>>(Sends(Drain))
  /\ WF_<<part, vars>>(Sends(Writable /\ (Resume \/ ResumeSwapped)))
  /\ WF_<<part, received>>(Receives(Receiving!Attempt))
  /\ WF_<<part, received>>(Receives(Receiving!Readable /\ Receiving!Resume))

\* A receive waits only while the bytes it is for have not all reached the buffer.
WaitsOnlyForNetwork == part = "receive" => Receiving!WaitsOnlyForNetwork

\* What a call receives, in whatever pieces and however often it waits, is what ByteReader says.
ImplementsByteReader == Receiving!ImplementsByteReader

\* Every send returns if the peer goes on reading, and every receive whose bytes arrive.
BothReturn == SendReturns /\ Receiving!CompleteIsReturned

(***************************************************************************)
(* The calls.                                                              *)
(***************************************************************************)
\* Inside the string, at and beyond both of its ends, and counted from its end.
MCFrom == {1, 2, -3, 0, 7, -9}
MCTo   == {-1, 4, 9, 1, -9}

MCCalls == [fn : {"receive", "receivePartial"},
            pat : [kind : {"line", "all"}, n : {0}] \cup [kind : {"raw"}, n : Count]]
================================================================================
