------------------------------ MODULE Handles ------------------------------
(***************************************************************************)
(* Timers, UDP sockets, signal watchers, idle callbacks and DNS lookups on  *)
(* one event loop, from construction to destruction, and the log their      *)
(* failures go to.  Everything happens on the loop's thread; an application *)
(* callback that acts on an object is the callback followed by that action. *)
(*                                                                         *)
(* The application destroys a Timer, Udp or Signal when told that it is     *)
(* closed, or later, and a DNSGet when it has no lookup under way.          *)
(***************************************************************************)
EXTENDS Timer, Udp, Signal, Idle, DnsGet, LogWriter

CONSTANTS Objs,       \* the objects
          MaxCloses,  \* bound: calls of close() on one
          MaxSends    \* bound: requests outstanding or leaked on one

ASSUME HandlesAssumption == MaxCloses \in Nat /\ MaxSends \in Nat

VARIABLES h,      \* the objects
          log     \* the LogWriter

vars == <<h, log>>

News == {NewTimer(FALSE), NewTimer(TRUE), NewObject("udp"), NewSignal, NewIdle,
         NewObject("dns")}

Init == h \in [Objs -> News] /\ log = NewLog

\* Object o, of a kind, becomes r.
Becomes(o, kind, r) ==
    /\ h[o].kind = kind /\ h' = [h EXCEPT ![o] = r]
    /\ UNCHANGED log

\* The same, when a failure is logged of which nobody else is told.
BecomesLogging(o, kind, r, level) ==
    /\ h[o].kind = kind
    /\ h' = [h EXCEPT ![o] = [r EXCEPT !.unheard = @ \/ ~Passes(log, level)]]
    /\ log' = write(log, level)

-----------------------------------------------------------------------------
(* Calls of the application *)

\* Nothing in start() keeps a caller from starting a timer that is being closed,
\* which libuv would later run from freed memory: the application does not.
Start(o) ==
    Usable(h[o]) /\ h[o].uv = "open" /\ Becomes(o, "timer", timerStart(h[o]))

SetTimerRepeat(o) ==
    /\ Usable(h[o])
    /\ \E repeat \in BOOLEAN : Becomes(o, "timer", setTimerRepeat(h[o], repeat))

\* Any number of times; libuv binds a socket at most once.
BindAndRead(o) ==
    /\ Usable(h[o]) /\ h[o].uv = "open"
    /\ \E ipv \in Ipvs, ok \in BOOLEAN :
          /\ ok => h[o].bound = "none"
          /\ Becomes(o, "udp", bindAndRead(h[o], ipv, ok))

Send(o) ==
    /\ Usable(h[o]) /\ h[o].uv = "open" /\ h[o].sends + h[o].leaked < MaxSends
    /\ \E taken \in BOOLEAN : Becomes(o, "udp", send(h[o], taken))

Lookup(o) ==
    /\ Usable(h[o]) /\ h[o].sends = 0
    /\ \E taken \in BOOLEAN : Becomes(o, "dns", GetIP(h[o], taken))

Close(o) ==
    /\ Usable(h[o]) /\ h[o].asked < MaxCloses
    /\ \/ Becomes(o, "timer", timerClose(h[o]))
       \/ Becomes(o, "udp", udpClose(h[o]))
       \/ Becomes(o, "signal", signalClose(h[o]))

Destroy(o) ==
    /\ h[o].obj = "live"
    /\ \/ h[o].answered > 0 /\ Becomes(o, "timer", [h[o] EXCEPT !.obj = "dead"])
       \/ h[o].answered > 0 /\ Becomes(o, "signal", [h[o] EXCEPT !.obj = "dead"])
       \/ h[o].answered > 0 /\ Becomes(o, "udp", udpDestroyed(h[o]))
       \/ Becomes(o, "idle", idleDestroyed(h[o]))
       \/ h[o].sends = 0 /\ Becomes(o, "dns", [h[o] EXCEPT !.obj = "dead"])

RegisterInterface == log' = registerInterface(log) /\ UNCHANGED h
SetLevel == (\E level \in 0..LevelSize : log' = setLevel(log, level)) /\ UNCHANGED h

\* debug(), info(), warn(), error() or fatal() by the application.
Log == (\E level \in 0..(LevelSize - 1) : log' = write(log, level)) /\ UNCHANGED h

-----------------------------------------------------------------------------
(* Callbacks from libuv; on a destroyed object they are undefined *)

Fire(o) ==
    /\ h[o].obj = "live" /\ h[o].active
    /\ \/ Becomes(o, "timer", onTimeOut(h[o]))
       \/ \E nread \in {0, 1} : Becomes(o, "udp", onMesageReceive(h[o], nread))
       \/ BecomesLogging(o, "udp", onMesageReceive(h[o], -1), Error)
       \/ Becomes(o, "signal", onSignal(h[o], TRUE))
       \/ BecomesLogging(o, "signal", onSignal(h[o], FALSE), Warn)
       \/ Becomes(o, "idle", idleCallback(h[o]))

SendDone(o) ==
    /\ h[o].obj = "live" /\ h[o].sends > 0
    /\ \/ Becomes(o, "udp", sendDone(h[o]))
       \/ BecomesLogging(o, "udp", sendDone(h[o]), Error)

LookupDone(o) ==
    /\ h[o].obj = "live" /\ h[o].sends > 0
    /\ \E status \in {-1, 0}, ipv \in Ipvs :
          Becomes(o, "dns", onDNSGet(h[o], status, ipv))

Closed(o) ==
    /\ h[o].obj = "live" /\ h[o].uv = "closing" /\ h[o].sends = 0
    /\ \/ Becomes(o, "timer", timerClosed(h[o]))
       \/ Becomes(o, "udp", udpClosed(h[o]))
       \/ Becomes(o, "signal", signalClosed(h[o]))

Next ==
    \/ RegisterInterface \/ SetLevel \/ Log
    \/ \E o \in Objs :
          \/ Start(o) \/ SetTimerRepeat(o) \/ BindAndRead(o) \/ Send(o) \/ Lookup(o)
          \/ Close(o) \/ Destroy(o)
          \/ Fire(o) \/ SendDone(o) \/ LookupDone(o) \/ Closed(o)

Spec == Init /\ [][Next]_vars

\* The loop runs: requests end and closes complete.  Nothing makes a timer, a
\* signal or a datagram come.
FairSpec ==
    /\ Spec
    /\ \A o \in Objs : WF_vars(SendDone(o)) /\ WF_vars(LookupDone(o)) /\ WF_vars(Closed(o))

-----------------------------------------------------------------------------
\* No running handle calls back on a destroyed object.  A Timer, Udp or Signal
\* closed at most once, or a DNSGet, is destroyed and its memory freed only when
\* libuv has nothing of it any more.  Two cases are excepted, because the code
\* does otherwise: an Idle is deleted with libuv still holding its handle, and a
\* second close() calls back at once, with the first still under way.
NoDeadCallback ==
    \A o \in Objs :
        /\ h[o].active => h[o].obj = "live" /\ h[o].mem = "held"
        /\ h[o].kind # "idle" /\ h[o].asked <= 1 /\ InUse(h[o]) =>
              h[o].obj = "live" /\ h[o].mem = "held"

\* A timer that was never set to repeat runs once, however often it is started.
OneShotOnce ==
    \A o \in Objs : h[o].kind = "timer" /\ h[o].fired > 1 => h[o].repeated

\* The sender of a datagram is read with the family of the socket it came by,
\* also when binding took several attempts, of either family.  Excepted is a
\* socket that, once bound, was asked to bind to the other family: the call is
\* refused, but has already changed how senders are read.
SenderNamedRight ==
    \A o \in Objs : h[o].kind = "udp" /\ h[o].named = "misread" => h[o].rebound

\* A datagram that could not be sent or read, or a signal nobody handles, is told
\* to nobody but the log: it gets through, with a name for its level, unless the
\* level was set above it.
FailuresHeard ==
    /\ \A o \in Objs : h[o].unheard => log.quieted
    /\ log.name # "beyond"

\* close() is answered, once what was being sent is over; a lookup too.
CloseAnswered ==
    \A o \in Objs : /\ h[o].asked = 1 ~> h[o].answered = 1 \/ h[o].asked > 1
                    /\ h[o].kind = "dns" /\ h[o].sends = 1 ~> h[o].fired > 0
=============================================================================
