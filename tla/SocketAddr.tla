----------------------------- MODULE SocketAddr -----------------------------
(***************************************************************************)
(* uv::SocketAddr.  A sockaddr is its family, address and port; read as one *)
(* of the other family it gives some other address.                         *)
(***************************************************************************)
EXTENDS Naturals

Ipvs == {"Ipv4", "Ipv6"}

\* uv_ip4_addr and uv_ip6_addr
SockAddr(ip, port, ipv) == [family |-> ipv, ip |-> ip, port |-> port]

\* The address and port that GetIpAndPort() reads for an ipv.
GetIpAndPort(addr, ipv) ==
    [ip |-> IF addr.family = ipv THEN addr.ip ELSE "misread", port |-> addr.port]

\* toStr(), AddrToStr(): what stands for "ip:port".
toStr(ipport) == <<ipport.ip, ":", ipport.port>>
AddrToStr(addr, ipv) == toStr(GetIpAndPort(addr, ipv))
=============================================================================
