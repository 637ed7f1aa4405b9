------------------------------- MODULE DnsGet -------------------------------
(***************************************************************************)
(* uv::DNSGet: one request, inside the object.                              *)
(***************************************************************************)
EXTENDS UvHandle, SocketAddr

\* GetIP(): uv_getaddrinfo takes the request or fails at once.
GetIP(r, taken) == IF taken THEN [r EXCEPT !.sends = @ + 1] ELSE r

\* onDNSGet(): an empty address with an error; otherwise the first result, read
\* by its protocol, which is TCP or IP for both families.
onDNSGet(r, status, ipv) ==
    [Fired([r EXCEPT !.sends = @ - 1]) EXCEPT !.named =
        IF status < 0 THEN "" ELSE GetIpAndPort(SockAddr("host", 0, ipv), "Ipv4").ip]
=============================================================================
