---------------------------- MODULE MessageRing ----------------------------
(***************************************************************************)
(* What the packet layer promises two peers that echo to each other: whole  *)
(* messages, first in first out in each direction.  The client sends; each  *)
(* side takes messages off the front and puts the same ones back.           *)
(***************************************************************************)
EXTENDS Naturals, Sequences

CONSTANT Batches    \* what one send puts on the ring: sequences of messages

VARIABLES toServer, toClient

ringVars == <<toServer, toClient>>

RingInit == toServer = <<>> /\ toClient = <<>>

Send(ms) ==
    /\ toServer' = toServer \o ms
    /\ UNCHANGED toClient

ServerEchoes(k) ==
    /\ toServer' = SubSeq(toServer, k + 1, Len(toServer))
    /\ toClient' = toClient \o SubSeq(toServer, 1, k)

ClientEchoes(k) ==
    /\ toClient' = SubSeq(toClient, k + 1, Len(toClient))
    /\ toServer' = toServer \o SubSeq(toClient, 1, k)

RingNext ==
    \/ \E ms \in Batches : Send(ms)
    \/ \E k \in 1..Len(toServer) : ServerEchoes(k)
    \/ \E k \in 1..Len(toClient) : ClientEchoes(k)

RingSpec == RingInit /\ [][RingNext]_ringVars
=============================================================================
