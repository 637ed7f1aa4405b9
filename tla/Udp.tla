-------------------------------- MODULE Udp --------------------------------
(***************************************************************************)
(* uv::Udp.  The handle is deleted with the object.                         *)
(***************************************************************************)
EXTENDS UvHandle, SocketAddr

\* A datagram's sender.
Peer(ipv) == SockAddr("peer", 1, ipv)

\* The attempt is to bind a bound socket to the other family.
Rebinds(r, ipv) == r.bound \notin {"none", ipv}

bindSetsOnce(r, ipv, ok) ==  \* mutant: the family is that of the first attempt
    LET tried == [r EXCEPT !.ipv = IF @ = "unset" THEN ipv ELSE @,
                           !.rebound = @ \/ Rebinds(r, ipv)]
    IN  IF ok THEN [tried EXCEPT !.bound = ipv, !.active = TRUE] ELSE tried

\* bindAndRead(): the family is noted before the result of bind is known.
bindAndRead(r, ipv, ok) ==
    LET tried == [r EXCEPT !.ipv = ipv, !.rebound = @ \/ Rebinds(r, ipv)]
    IN  IF ok THEN [tried EXCEPT !.bound = ipv, !.active = TRUE] ELSE tried

\* send(): the request is deleted in its callback, which a refused one has not.
send(r, taken) ==
    IF taken THEN [r EXCEPT !.sends = @ + 1] ELSE [r EXCEPT !.leaked = @ + 1]

sendDone(r) == [r EXCEPT !.sends = @ - 1]

\* onMesageReceive(): an error or an empty read is not passed on.
onMesageReceive(r, nread) ==
    IF nread > 0
      THEN [Fired(r) EXCEPT !.named = AddrToStr(Peer(r.bound), r.ipv)[1]]
      ELSE r

udpClose(r) == UvClose([r EXCEPT !.active = FALSE])
udpClosed(r) == UvClosed(r)
udpDestroyed(r) == [r EXCEPT !.obj = "dead", !.mem = "freed"]
=============================================================================
