--------------------------- MODULE Handles_proofs ---------------------------
(***************************************************************************)
(* Theorems about Handles for every number of objects, of calls of close()  *)
(* and of requests; TLC runs it with one object.                            *)
(***************************************************************************)
EXTENDS Handles, TLAPS

HandleRecords ==
    [kind : {"timer", "udp", "signal", "idle", "dns"}, obj : {"live", "dead"},
     uv : {"open", "closing", "closed"}, mem : {"held", "freed"},
     active : BOOLEAN, asked : Nat, answered : Nat, fired : 0..2, sends : Nat,
     leaked : Nat, started : BOOLEAN, repeat : BOOLEAN, repeated : BOOLEAN,
     ipv : {"unset"} \cup Ipvs, bound : {"none"} \cup Ipvs,
     named : {"none", "peer", "host", "misread", ""}, rebound : BOOLEAN,
     unheard : BOOLEAN]

\* How far the handle has come tells how many closes are unanswered, what libuv
\* may still do with it, and whose turn it is to free it.
LifeOK(r) ==
    /\ r.uv = "open" => r.asked = 0 /\ r.answered = 0
    /\ r.uv = "closing" => r.asked = r.answered + 1
    /\ r.uv = "closed" => r.sends = 0
    /\ r.active => r.uv = "open" /\ r.obj = "live"
    /\ r.kind \in {"idle", "dns"} => r.uv = "open" /\ (r.obj = "dead" => r.sends = 0)
    /\ r.kind = "dns" => ~r.active
    /\ r.kind \in {"timer", "signal", "udp"} /\ r.obj = "dead" => r.answered > 0
    /\ r.kind \in {"timer", "signal", "idle"} => r.sends = 0
    /\ r.kind \in {"timer", "signal"} /\ r.mem = "freed" => r.uv = "closed"
    /\ r.kind \in {"udp", "idle", "dns"} /\ r.mem = "freed" => r.obj = "dead"

\* A timer that never repeats has run at most once, and not yet if it may run.
OneShotOK(r) ==
    r.kind = "timer" =>
        /\ r.active => r.started
        /\ r.repeat => r.repeated
        /\ ~r.repeated => r.fired <= 1 /\ (r.active \/ ~r.started => r.fired = 0)

\* A bound socket's family is the one noted last, and no sender was misread, unless
\* it was asked to bind to the other family since.
FamilyOK(r) ==
    r.kind = "udp" =>
        /\ r.active => r.bound # "none"
        /\ r.bound # "none" /\ ~r.rebound => r.ipv = r.bound
        /\ r.named = "misread" => r.rebound

HandleOK(r) == r \in HandleRecords /\ LifeOK(r) /\ OneShotOK(r) /\ FamilyOK(r)

\* The log has let everything from Warn on through unless it was quieted.
LogOK ==
    /\ log \in [level : 0..LevelSize, registered : BOOLEAN, quieted : BOOLEAN,
                name : {"none", "Debug", "Info", "Warn", "Error"}]
    /\ ~log.quieted => log.level <= Warn

\* The inductive invariant.
HandlesInv ==
    /\ h \in [Objs -> HandleRecords]
    /\ \A o \in Objs : HandleOK(h[o]) /\ (h[o].unheard => log.quieted)
    /\ LogOK

\* q is what becomes of the object r: in order, and no failure has gone unheard.
Evolves(r, q) == HandleOK(q) /\ q.kind = r.kind /\ (q.unheard <=> r.unheard)

-----------------------------------------------------------------------------
(* What each operation does to an object in order *)

\* start() of a Timer.
LEMMA TimerStartOK ==
  ASSUME NEW r, HandleOK(r), r.kind = "timer", r.obj = "live", r.uv = "open"
  PROVE  Evolves(r, timerStart(r))
<1>1. CASE r.started  BY <1>1 DEF timerStart, Evolves
<1>2. CASE ~r.started
  <2> DEFINE q == [r EXCEPT !.started = TRUE, !.active = TRUE]
  <2>1. q \in HandleRecords  BY DEF HandleOK, HandleRecords
  <2>2. LifeOK(q) /\ OneShotOK(q) /\ FamilyOK(q)
    BY <1>2 DEF HandleOK, HandleRecords, LifeOK, OneShotOK, FamilyOK
  <2>3. q.kind = r.kind /\ (q.unheard <=> r.unheard)  BY DEF HandleOK, HandleRecords
  <2> QED BY <1>2, <2>1, <2>2, <2>3 DEF timerStart, Evolves, HandleOK
<1> QED BY <1>1, <1>2

\* setTimerRepeat() of a Timer.
LEMMA TimerRepeatOK ==
  ASSUME NEW r, HandleOK(r), r.kind = "timer", NEW repeat \in BOOLEAN
  PROVE  Evolves(r, setTimerRepeat(r, repeat))
<1> DEFINE q == [r EXCEPT !.repeat = repeat, !.repeated = r.repeated \/ repeat]
<1>1. q \in HandleRecords  BY DEF HandleOK, HandleRecords
<1>2. LifeOK(q) /\ OneShotOK(q) /\ FamilyOK(q)
  BY DEF HandleOK, HandleRecords, LifeOK, OneShotOK, FamilyOK
<1>3. q.kind = r.kind /\ (q.unheard <=> r.unheard)  BY DEF HandleOK, HandleRecords
<1> QED BY <1>1, <1>2, <1>3 DEF setTimerRepeat, Evolves, HandleOK

\* The application's callback is made once more.
LEMMA FiredOK ==
  ASSUME NEW r \in HandleRecords
  PROVE  /\ Fired(r) \in HandleRecords
         /\ Fired(r).fired = (IF r.fired < 2 THEN r.fired + 1 ELSE r.fired)
         /\ Fired(r) = [r EXCEPT !.fired = Fired(r).fired]
<1> DEFINE n == IF r.fired < 2 THEN r.fired + 1 ELSE r.fired
<1>1. n \in 0..2
  <2>1. r.fired \in 0..2  BY DEF HandleRecords
  <2> QED BY <2>1
<1>2. Fired(r) = [r EXCEPT !.fired = n]  BY DEF Fired
<1> HIDE DEF n
<1>3. [r EXCEPT !.fired = n] \in HandleRecords  BY <1>1 DEF HandleRecords
<1>4. [r EXCEPT !.fired = n].fired = n  BY DEF HandleRecords
<1> QED BY <1>2, <1>3, <1>4 DEF n

\* A call of the application by an object that is no timer.
LEMMA OtherFiredOK ==
  ASSUME NEW r, HandleOK(r), r.kind # "timer"
  PROVE  Evolves(r, Fired(r))
<1> DEFINE n == Fired(r).fired
           q == [r EXCEPT !.fired = n]
<1>1. r \in HandleRecords  BY DEF HandleOK
<1>2. Fired(r) = q /\ q \in HandleRecords  BY <1>1, FiredOK
<1> HIDE DEF n
<1>3. LifeOK(q) /\ OneShotOK(q) /\ FamilyOK(q)
  BY <1>1 DEF HandleOK, HandleRecords, LifeOK, OneShotOK, FamilyOK
<1>4. q.kind = r.kind /\ (q.unheard <=> r.unheard)  BY <1>1 DEF HandleRecords
<1> QED BY <1>2, <1>3, <1>4 DEF Evolves, HandleOK

\* process() of a Timer that was active.
LEMMA TimeOutOK ==
  ASSUME NEW r, HandleOK(r), r.kind = "timer", r.active
  PROVE  Evolves(r, onTimeOut(r))
<1> DEFINE a == [r EXCEPT !.active = r.repeat]
           n == Fired(a).fired
           q == [a EXCEPT !.fired = n]
<1>1. r \in HandleRecords  BY DEF HandleOK
<1>2. a \in HandleRecords  BY <1>1 DEF HandleRecords
<1>3. /\ a.fired = r.fired /\ (a.active <=> r.repeat) /\ a.uv = r.uv
      /\ (a.started <=> r.started) /\ (a.repeated <=> r.repeated)
      /\ (a.repeat <=> r.repeat) /\ a.kind = r.kind /\ a.obj = r.obj
      /\ (a.unheard <=> r.unheard)
  BY <1>1 DEF HandleRecords
<1>4. LifeOK(a) /\ FamilyOK(a)
  BY <1>1 DEF HandleOK, HandleRecords, LifeOK, FamilyOK
<1> HIDE DEF a
<1>5. /\ Fired(a) = q /\ q \in HandleRecords
      /\ n = (IF a.fired < 2 THEN a.fired + 1 ELSE a.fired)
  BY <1>2, FiredOK
<1> HIDE DEF n
<1>6. LifeOK(q) /\ FamilyOK(q)
  BY <1>2, <1>4 DEF HandleRecords, LifeOK, FamilyOK
<1>7. /\ q.fired = n /\ (q.active <=> a.active) /\ (q.started <=> a.started)
      /\ (q.repeated <=> a.repeated) /\ (q.repeat <=> a.repeat) /\ q.kind = a.kind
      /\ (q.unheard <=> a.unheard)
  BY <1>2 DEF HandleRecords
<1>8. OneShotOK(q)
  <2>1. /\ r.repeat => r.repeated
        /\ ~r.repeated => r.fired = 0
        /\ r.started
    BY DEF HandleOK, OneShotOK
  <2>2. ~r.repeated => n = 1  BY <1>3, <1>5, <2>1
  <2> HIDE DEF q
  <2>3. ~q.repeated => q.fired <= 1 /\ (q.active \/ ~q.started => q.fired = 0)
    BY <1>3, <1>7, <2>1, <2>2
  <2> QED BY <1>3, <1>7, <2>1, <2>3 DEF OneShotOK
<1> QED BY <1>3, <1>5, <1>6, <1>7, <1>8 DEF onTimeOut, Evolves, HandleOK, a

\* A handle stopped before it is closed.
LEMMA StoppedOK ==
  ASSUME NEW r, HandleOK(r)
  PROVE  /\ Evolves(r, [r EXCEPT !.active = FALSE])
         /\ [r EXCEPT !.active = FALSE].obj = r.obj
<1> DEFINE q == [r EXCEPT !.active = FALSE]
<1>1. q \in HandleRecords /\ q.kind = r.kind /\ (q.unheard <=> r.unheard)
      /\ q.obj = r.obj
  BY DEF HandleOK, HandleRecords
<1>2. LifeOK(q) /\ OneShotOK(q) /\ FamilyOK(q)
  BY DEF HandleOK, HandleRecords, LifeOK, OneShotOK, FamilyOK
<1> QED BY <1>1, <1>2 DEF Evolves, HandleOK

\* close() of a Timer, Udp or Signal: the first one starts the close, another
\* is answered at once.
LEMMA UvCloseOK ==
  ASSUME NEW r, HandleOK(r), r.kind \in {"timer", "udp", "signal"}, r.obj = "live"
  PROVE  Evolves(r, UvClose(r))
<1>0. r \in HandleRecords /\ r.asked \in Nat /\ r.answered \in Nat
  BY DEF HandleOK, HandleRecords
<1>1. CASE r.uv = "open"
  <2> DEFINE m == r.asked + 1
             q == [r EXCEPT !.asked = m, !.uv = "closing", !.active = FALSE]
  <2>0. m = 1 /\ r.answered = 0  BY <1>1 DEF HandleOK, LifeOK
  <2> HIDE DEF m
  <2>1. q \in HandleRecords  BY <1>0, <2>0 DEF HandleRecords
  <2>2. /\ q.kind = r.kind /\ (q.unheard <=> r.unheard)
        /\ q.uv = "closing" /\ q.asked = 1 /\ q.answered = r.answered
    BY <1>0, <2>0 DEF HandleRecords
  <2>3. LifeOK(q)
    <3>1. q.asked = q.answered + 1  BY <2>0, <2>2
    <3> QED BY <1>0, <1>1, <2>0, <3>1 DEF HandleOK, HandleRecords, LifeOK
  <2>4. OneShotOK(q) /\ FamilyOK(q)
    BY <1>0 DEF HandleOK, HandleRecords, OneShotOK, FamilyOK
  <2>5. UvClose(r) = q  BY <1>1 DEF UvClose, m
  <2> QED BY <2>1, <2>2, <2>3, <2>4, <2>5 DEF Evolves, HandleOK
<1>2. CASE r.uv # "open"
  <2> DEFINE m == r.asked + 1
             k == r.answered + 1
             q == [r EXCEPT !.asked = m, !.answered = k]
  <2>0. m \in Nat /\ k \in Nat /\ k > 0 /\ (r.asked = r.answered + 1 => m = k + 1)
    BY <1>0
  <2>5. UvClose(r) = q  BY <1>2 DEF UvClose
  <2> HIDE DEF m, k
  <2>1. q \in HandleRecords  BY <1>0, <2>0 DEF HandleRecords
  <2>2. q.kind = r.kind /\ (q.unheard <=> r.unheard)  BY <1>0 DEF HandleRecords
  <2>3. LifeOK(q)  BY <1>0, <1>2, <2>0 DEF HandleOK, HandleRecords, LifeOK
  <2>4. OneShotOK(q) /\ FamilyOK(q)
    BY <1>0 DEF HandleOK, HandleRecords, OneShotOK, FamilyOK
  <2> QED BY <2>1, <2>2, <2>3, <2>4, <2>5 DEF Evolves, HandleOK
<1> QED BY <1>1, <1>2

\* libuv's close callback; a Timer or Signal frees its handle there.
LEMMA UvClosedOK ==
  ASSUME NEW r, HandleOK(r), r.kind \in {"timer", "udp", "signal"}, r.obj = "live",
         r.uv = "closing", r.sends = 0
  PROVE  /\ Evolves(r, UvClosed(r))
         /\ r.kind # "udp" => Evolves(r, [UvClosed(r) EXCEPT !.mem = "freed"])
<1> DEFINE k == r.answered + 1
           q == [r EXCEPT !.uv = "closed", !.answered = k]
           f == [q EXCEPT !.mem = "freed"]
<1>0. r \in HandleRecords /\ k \in Nat /\ k > 0
  <2>1. r \in HandleRecords /\ r.answered \in Nat  BY DEF HandleOK, HandleRecords
  <2> QED BY <2>1
<1>1. UvClosed(r) = q  BY DEF UvClosed
<1> HIDE DEF k
<1>2. q \in HandleRecords  BY <1>0 DEF HandleRecords
<1>3. q.kind = r.kind /\ (q.unheard <=> r.unheard)  BY <1>0 DEF HandleRecords
<1>4. LifeOK(q)
  BY <1>0 DEF HandleOK, HandleRecords, LifeOK
<1>5. OneShotOK(q) /\ FamilyOK(q)
  BY <1>0 DEF HandleOK, HandleRecords, OneShotOK, FamilyOK
<1>6. q.uv = "closed"  BY <1>0 DEF HandleRecords
<1> HIDE DEF q
<1>7. ASSUME r.kind # "udp" PROVE Evolves(r, f)
  <2>1. f \in HandleRecords  BY <1>2 DEF HandleRecords
  <2>2. f.kind = q.kind /\ (f.unheard <=> q.unheard)  BY <1>2 DEF HandleRecords
  <2>3. LifeOK(f) /\ OneShotOK(f) /\ FamilyOK(f)
    BY <1>2, <1>3, <1>4, <1>5, <1>6, <1>7
       DEF HandleRecords, LifeOK, OneShotOK, FamilyOK
  <2> QED BY <1>3, <2>1, <2>2, <2>3 DEF Evolves, HandleOK
<1> QED BY <1>1, <1>2, <1>3, <1>4, <1>5, <1>7 DEF Evolves, HandleOK

\* The destructors, called when close() was answered, or no lookup is under way.
LEMMA DestroyedOK ==
  ASSUME NEW r, HandleOK(r), r.obj = "live"
  PROVE  /\ r.kind \in {"timer", "signal"} /\ r.answered > 0 =>
              Evolves(r, [r EXCEPT !.obj = "dead"])
         /\ r.kind = "udp" /\ r.answered > 0 => Evolves(r, udpDestroyed(r))
         /\ r.kind = "idle" => Evolves(r, idleDestroyed(r))
         /\ r.kind = "dns" /\ r.sends = 0 => Evolves(r, [r EXCEPT !.obj = "dead"])
<1>0. r \in HandleRecords /\ LifeOK(r) /\ OneShotOK(r) /\ FamilyOK(r)  BY DEF HandleOK
<1>1. ASSUME \/ r.kind \in {"timer", "signal"} /\ r.answered > 0
             \/ r.kind = "dns" /\ r.sends = 0
      PROVE  Evolves(r, [r EXCEPT !.obj = "dead"])
  <2> DEFINE q == [r EXCEPT !.obj = "dead"]
  <2>1. q \in HandleRecords /\ q.kind = r.kind /\ (q.unheard <=> r.unheard)
    BY <1>0 DEF HandleRecords
  <2>2. ~r.active
    <3>1. r.answered > 0 => r.answered # 0  OBVIOUS
    <3> QED BY <1>0, <1>1, <3>1 DEF LifeOK
  <2>3. LifeOK(q) /\ OneShotOK(q) /\ FamilyOK(q)
    BY <1>0, <1>1, <2>2 DEF HandleRecords, LifeOK, OneShotOK, FamilyOK
  <2> QED BY <2>1, <2>3 DEF Evolves, HandleOK
<1>2. ASSUME r.kind = "udp", r.answered > 0 PROVE Evolves(r, udpDestroyed(r))
  <2> DEFINE q == [r EXCEPT !.obj = "dead", !.mem = "freed"]
  <2>1. q \in HandleRecords /\ q.kind = r.kind /\ (q.unheard <=> r.unheard)
    BY <1>0 DEF HandleRecords
  <2>2. ~r.active
    <3>1. r.answered # 0  BY <1>2
    <3> QED BY <1>0, <3>1 DEF LifeOK
  <2>3. LifeOK(q) /\ OneShotOK(q) /\ FamilyOK(q)
    BY <1>0, <1>2, <2>2 DEF HandleRecords, LifeOK, OneShotOK, FamilyOK
  <2> QED BY <2>1, <2>3 DEF udpDestroyed, Evolves, HandleOK
<1>3. ASSUME r.kind = "idle" PROVE Evolves(r, idleDestroyed(r))
  <2> DEFINE q == [r EXCEPT !.active = FALSE, !.obj = "dead", !.mem = "freed"]
  <2>1. q \in HandleRecords /\ q.kind = r.kind /\ (q.unheard <=> r.unheard)
    BY <1>0 DEF HandleRecords
  <2>2. LifeOK(q) /\ OneShotOK(q) /\ FamilyOK(q)
    BY <1>0, <1>3 DEF HandleRecords, LifeOK, OneShotOK, FamilyOK
  <2> QED BY <2>1, <2>2 DEF idleDestroyed, Evolves, HandleOK
<1> QED BY <1>1, <1>2, <1>3

\* Requests are made on, and end on, handles that are not closed.
LEMMA SendsOK ==
  ASSUME NEW r, HandleOK(r), r.kind \in {"udp", "dns"}, r.obj = "live",
         NEW k \in Nat, r.uv # "closed"
  PROVE  /\ Evolves(r, [r EXCEPT !.sends = k])
         /\ [r EXCEPT !.sends = k].sends = k
<1> DEFINE q == [r EXCEPT !.sends = k]
<1>1. r \in HandleRecords  BY DEF HandleOK
<1>2. q \in HandleRecords  BY <1>1 DEF HandleRecords
<1>3. q.kind = r.kind /\ (q.unheard <=> r.unheard) /\ q.sends = k
  BY <1>1 DEF HandleRecords
<1>4. LifeOK(q)  BY <1>1 DEF HandleOK, HandleRecords, LifeOK
<1>5. OneShotOK(q) /\ FamilyOK(q)
  BY <1>1 DEF HandleOK, HandleRecords, OneShotOK, FamilyOK
<1> QED BY <1>2, <1>3, <1>4, <1>5 DEF Evolves, HandleOK

\* An address is given to the application.
LEMMA NamedOK ==
  ASSUME NEW r, HandleOK(r), NEW a \in {"none", "peer", "host", "misread", ""},
         r.kind = "udp" /\ a = "misread" => r.rebound
  PROVE  Evolves(r, [r EXCEPT !.named = a])
<1> DEFINE q == [r EXCEPT !.named = a]
<1>1. r \in HandleRecords  BY DEF HandleOK
<1>2. q \in HandleRecords /\ q.kind = r.kind /\ (q.unheard <=> r.unheard)
  BY <1>1 DEF HandleRecords
<1>3. LifeOK(q) /\ OneShotOK(q)
  BY <1>1 DEF HandleOK, HandleRecords, LifeOK, OneShotOK
<1>4. FamilyOK(q)  BY <1>1 DEF HandleOK, HandleRecords, FamilyOK
<1> QED BY <1>2, <1>3, <1>4 DEF Evolves, HandleOK

\* bindAndRead(): an attempt that fails, one on a bound socket, or the one that
\* succeeds.
LEMMA BindOK ==
  ASSUME NEW r, HandleOK(r), r.kind = "udp", r.obj = "live", r.uv = "open",
         NEW ipv \in Ipvs, NEW ok \in BOOLEAN, ok => r.bound = "none"
  PROVE  Evolves(r, bindAndRead(r, ipv, ok))
<1> DEFINE b == r.rebound \/ Rebinds(r, ipv)
           t == [r EXCEPT !.ipv = ipv, !.rebound = b]
           q == [t EXCEPT !.bound = ipv, !.active = TRUE]
<1>1. r \in HandleRecords /\ LifeOK(r) /\ OneShotOK(r) /\ FamilyOK(r)  BY DEF HandleOK
<1>2. bindAndRead(r, ipv, ok) = IF ok THEN q ELSE t  BY DEF bindAndRead
<1>3. /\ b \in BOOLEAN /\ (r.rebound => b)
      /\ ~b => r.bound \in {"none", ipv}
  BY <1>1 DEF HandleRecords, Rebinds
<1> HIDE DEF b
<1>4. /\ t \in HandleRecords /\ t.kind = "udp" /\ (t.unheard <=> r.unheard)
      /\ t.ipv = ipv /\ (t.rebound <=> b) /\ t.bound = r.bound
      /\ t.named = r.named /\ t.obj = "live" /\ t.uv = "open"
      /\ (t.active <=> r.active)
  BY <1>1, <1>3 DEF HandleRecords
<1>5. LifeOK(t)  BY <1>1 DEF HandleRecords, LifeOK
<1>6. FamilyOK(t)  BY <1>1, <1>3, <1>4 DEF FamilyOK
<1> HIDE DEF t
<1>7. OneShotOK(t)  BY <1>4 DEF OneShotOK
<1>8. q \in HandleRecords /\ q.kind = "udp" /\ (q.unheard <=> t.unheard)
  BY <1>4 DEF HandleRecords
<1>9. LifeOK(q) /\ OneShotOK(q)
  BY <1>4, <1>5, <1>8 DEF HandleRecords, LifeOK, OneShotOK
<1>10. FamilyOK(q)  BY <1>4, <1>6 DEF HandleRecords, FamilyOK, Ipvs
<1> QED BY <1>2, <1>4, <1>5, <1>6, <1>7, <1>8, <1>9, <1>10 DEF Evolves, HandleOK

\* send(), its completion, and a datagram or an error arriving.
LEMMA UdpOK ==
  ASSUME NEW r, HandleOK(r), r.kind = "udp", r.obj = "live"
  PROVE  /\ r.uv = "open" => \A taken \in BOOLEAN : Evolves(r, send(r, taken))
         /\ r.sends > 0 => Evolves(r, sendDone(r))
         /\ r.active => \A nread \in {-1, 0, 1} : Evolves(r, onMesageReceive(r, nread))
<1>1. r \in HandleRecords /\ LifeOK(r) /\ OneShotOK(r) /\ FamilyOK(r)  BY DEF HandleOK
<1>2. r.sends \in Nat /\ r.leaked \in Nat  BY <1>1 DEF HandleRecords
<1>3. ASSUME r.uv = "open", NEW taken \in BOOLEAN PROVE Evolves(r, send(r, taken))
  <2>1. CASE taken
    <3>1. r.sends + 1 \in Nat  BY <1>2
    <3> QED BY <1>3, <2>1, <3>1, SendsOK DEF send
  <2>2. CASE ~taken
    <3> DEFINE k == r.leaked + 1
               q == [r EXCEPT !.leaked = k]
    <3>1. k \in Nat  BY <1>2
    <3>2. send(r, taken) = q  BY <2>2 DEF send
    <3> HIDE DEF k
    <3>3. q \in HandleRecords  BY <1>1, <3>1 DEF HandleRecords
    <3>4. q.kind = r.kind /\ (q.unheard <=> r.unheard)  BY <1>1 DEF HandleRecords
    <3>5. LifeOK(q)  BY <1>1 DEF HandleRecords, LifeOK
    <3>6. OneShotOK(q) /\ FamilyOK(q)
      BY <1>1 DEF HandleRecords, OneShotOK, FamilyOK
    <3> QED BY <3>2, <3>3, <3>4, <3>5, <3>6 DEF Evolves, HandleOK
  <2> QED BY <2>1, <2>2
<1>4. ASSUME r.sends > 0 PROVE Evolves(r, sendDone(r))
  <2>1. r.sends - 1 \in Nat /\ r.sends # 0  BY <1>2, <1>4
  <2>2. r.uv # "closed"  BY <1>1, <2>1 DEF LifeOK
  <2> QED BY <2>1, <2>2, SendsOK DEF sendDone
<1>5. ASSUME r.active, NEW nread \in {-1, 0, 1}
      PROVE  Evolves(r, onMesageReceive(r, nread))
  <2>1. CASE nread = 1
    <3> DEFINE a == AddrToStr(Peer(r.bound), r.ipv)[1]
               f == Fired(r)
    <3>1. ~r.rebound => r.ipv = r.bound  BY <1>1, <1>5 DEF FamilyOK
    <3>2. a = IF r.ipv = r.bound THEN "peer" ELSE "misread"
      BY DEF AddrToStr, toStr, GetIpAndPort, Peer, SockAddr
    <3>3. onMesageReceive(r, nread) = [f EXCEPT !.named = a]
      BY <2>1 DEF onMesageReceive
    <3>4. Evolves(r, f)  BY OtherFiredOK
    <3>5. f.rebound <=> r.rebound
      <4>1. f = [r EXCEPT !.fired = f.fired]  BY <1>1, FiredOK
      <4> HIDE DEF f
      <4> QED BY <1>1, <4>1 DEF HandleRecords
    <3> HIDE DEF a, f
    <3>6. a \in {"none", "peer", "host", "misread", ""}  BY <3>2
    <3>7. a = "misread" => r.rebound  BY <3>1, <3>2
    <3>8. HandleOK(f) /\ f.kind = r.kind /\ (f.unheard <=> r.unheard)
      BY <3>4 DEF Evolves
    <3>9. Evolves(f, [f EXCEPT !.named = a])  BY <3>5, <3>6, <3>7, <3>8, NamedOK
    <3> QED BY <3>3, <3>8, <3>9 DEF Evolves
  <2>2. CASE nread # 1
    <3>1. ~(nread > 0)  BY <2>2
    <3> QED BY <3>1 DEF onMesageReceive, Evolves
  <2> QED BY <2>1, <2>2
<1> QED BY <1>3, <1>4, <1>5

\* A lookup and its end.
LEMMA DnsOK ==
  ASSUME NEW r, HandleOK(r), r.kind = "dns", r.obj = "live"
  PROVE  /\ \A taken \in BOOLEAN : Evolves(r, GetIP(r, taken))
         /\ r.sends > 0 => \A status \in {-1, 0}, ipv \in Ipvs :
                              Evolves(r, onDNSGet(r, status, ipv))
<1>1. /\ r \in HandleRecords /\ r.sends \in Nat /\ r.uv # "closed"
  BY DEF HandleOK, HandleRecords, LifeOK
<1>2. ASSUME NEW taken \in BOOLEAN PROVE Evolves(r, GetIP(r, taken))
  <2>1. r.sends + 1 \in Nat  BY <1>1
  <2> QED BY <1>1, <2>1, SendsOK DEF GetIP, Evolves
<1>3. ASSUME r.sends > 0, NEW status \in {-1, 0}, NEW ipv \in Ipvs
      PROVE  Evolves(r, onDNSGet(r, status, ipv))
  <2> DEFINE q == [r EXCEPT !.sends = r.sends - 1]
             a == IF status < 0 THEN ""
                  ELSE GetIpAndPort(SockAddr("host", 0, ipv), "Ipv4").ip
  <2>1. r.sends - 1 \in Nat  BY <1>1, <1>3
  <2>2. Evolves(r, q)  BY <1>1, <2>1, SendsOK
  <2>3. a \in {"none", "peer", "host", "misread", ""}
    BY DEF GetIpAndPort, SockAddr
  <2>4. onDNSGet(r, status, ipv) = [Fired(q) EXCEPT !.named = a]  BY DEF onDNSGet
  <2> HIDE DEF q, a
  <2>5. HandleOK(q) /\ q.kind = "dns" /\ (q.unheard <=> r.unheard)
    BY <2>2 DEF Evolves
  <2>6. Evolves(q, Fired(q))  BY <2>5, OtherFiredOK
  <2>7. HandleOK(Fired(q)) /\ Fired(q).kind = "dns" /\ (Fired(q).unheard <=> r.unheard)
    BY <2>5, <2>6 DEF Evolves
  <2>8. Evolves(Fired(q), [Fired(q) EXCEPT !.named = a])  BY <2>3, <2>7, NamedOK
  <2> QED BY <2>4, <2>7, <2>8 DEF Evolves
<1> QED BY <1>2, <1>3

\* The constructors.
LEMMA NewsOK == ASSUME NEW r \in News PROVE HandleOK(r) /\ ~r.unheard
<1>1. ASSUME NEW kind \in {"timer", "udp", "signal", "idle", "dns"}
      PROVE  /\ NewObject(kind) \in HandleRecords
             /\ NewObject(kind).kind = kind /\ NewObject(kind).obj = "live"
             /\ NewObject(kind).uv = "open" /\ NewObject(kind).mem = "held"
             /\ NewObject(kind).asked = 0 /\ NewObject(kind).answered = 0
             /\ NewObject(kind).sends = 0 /\ NewObject(kind).fired = 0
             /\ ~NewObject(kind).active /\ ~NewObject(kind).started
             /\ ~NewObject(kind).repeat /\ ~NewObject(kind).repeated
             /\ NewObject(kind).bound = "none" /\ NewObject(kind).named = "none"
             /\ ~NewObject(kind).unheard
  BY DEF NewObject, HandleRecords
<1>2. ASSUME NEW kind \in {"timer", "udp", "signal", "idle", "dns"}
      PROVE  HandleOK(NewObject(kind)) /\ ~NewObject(kind).unheard
  BY <1>1 DEF HandleOK, LifeOK, OneShotOK, FamilyOK
<1>3. ASSUME NEW repeat \in BOOLEAN
      PROVE  HandleOK(NewTimer(repeat)) /\ ~NewTimer(repeat).unheard
  <2> DEFINE n == NewObject("timer")
             q == [n EXCEPT !.repeat = repeat, !.repeated = repeat]
  <2>1. /\ n \in HandleRecords /\ HandleOK(n) /\ n.fired = 0 /\ ~n.active
        /\ ~n.unheard /\ n.kind = "timer"
    BY <1>1, <1>2
  <2> HIDE DEF n
  <2>2. q \in HandleRecords /\ ~q.unheard  BY <2>1 DEF HandleRecords
  <2>3. LifeOK(q) /\ FamilyOK(q)
    BY <2>1 DEF HandleOK, HandleRecords, LifeOK, FamilyOK
  <2>4. OneShotOK(q)
    <3>1. /\ q.fired = 0 /\ ~q.active /\ (q.repeat <=> repeat)
          /\ (q.repeated <=> repeat)
      BY <2>1 DEF HandleRecords
    <3> HIDE DEF q
    <3> QED BY <3>1 DEF OneShotOK
  <2> QED BY <2>2, <2>3, <2>4 DEF NewTimer, HandleOK, n
<1>4. ASSUME NEW kind \in {"signal", "idle"}
      PROVE  HandleOK([NewObject(kind) EXCEPT !.active = TRUE])
             /\ ~[NewObject(kind) EXCEPT !.active = TRUE].unheard
  <2> DEFINE n == NewObject(kind)
             q == [n EXCEPT !.active = TRUE]
  <2>1. /\ n \in HandleRecords /\ HandleOK(n) /\ n.kind = kind /\ n.obj = "live"
        /\ n.uv = "open" /\ ~n.unheard
    BY <1>1, <1>2
  <2> HIDE DEF n
  <2>2. q \in HandleRecords /\ ~q.unheard  BY <2>1 DEF HandleRecords
  <2>3. LifeOK(q) /\ OneShotOK(q) /\ FamilyOK(q)
    BY <2>1 DEF HandleOK, HandleRecords, LifeOK, OneShotOK, FamilyOK
  <2> QED BY <2>2, <2>3 DEF HandleOK, n
<1> QED BY <1>2, <1>3, <1>4 DEF News, NewSignal, NewIdle

\* Writing to the log leaves its level alone and names only levels it has; what
\* does not pass was silenced by a level above Warn.
LEMMA WriteLogOK ==
  ASSUME LogOK, NEW level \in 0..(LevelSize - 1)
  PROVE  /\ write(log, level) \in
               [level : 0..LevelSize, registered : BOOLEAN, quieted : BOOLEAN,
                name : {"none", "Debug", "Info", "Warn", "Error"}]
         /\ write(log, level).level = log.level
         /\ write(log, level).quieted <=> log.quieted
         /\ level \in {Warn, Error} /\ ~Passes(log, level) => log.quieted
<1>1. LevelSize = 5  BY DEF LevelSize, Levels
<1>2. /\ log.level \in 0..5 /\ level \in 0..4 /\ log.quieted \in BOOLEAN
      /\ ~log.quieted => log.level <= 2
  BY <1>1 DEF LogOK, Warn
<1>3. ASSUME Passes(log, level)
      PROVE  getLevelName(level) \in {"Debug", "Info", "Warn", "Error"}
  <2>1. level \in 0..3  BY <1>2, <1>3 DEF Passes, Error
  <2> QED BY <1>1, <2>1 DEF getLevelName, Levels
<1>4. level \in {Warn, Error} /\ ~Passes(log, level) => log.quieted
  BY <1>2 DEF Passes, Warn, Error, Debug
<1>5. CASE Passes(log, level)
  <2> DEFINE n == getLevelName(level)
  <2>1. write(log, level) = [log EXCEPT !.name = n]  BY <1>5 DEF write
  <2>2. n \in {"none", "Debug", "Info", "Warn", "Error"}  BY <1>3, <1>5
  <2> HIDE DEF n
  <2> QED BY <1>4, <2>1, <2>2 DEF LogOK
<1>6. CASE ~Passes(log, level)  BY <1>4, <1>6 DEF write, LogOK
<1> QED BY <1>5, <1>6

-----------------------------------------------------------------------------
(* The inductive step *)

\* One object changes and nothing is logged.
LEMMA BecomesKeeps ==
  ASSUME HandlesInv, NEW o \in Objs, NEW kind, NEW r, Becomes(o, kind, r),
         Evolves(h[o], r)
  PROVE  HandlesInv'
<1>1. h' = [h EXCEPT ![o] = r] /\ log' = log  BY DEF Becomes
<1>2. r \in HandleRecords /\ HandleOK(r) /\ (r.unheard <=> h[o].unheard)
  BY DEF Evolves, HandleOK
<1>3. h' \in [Objs -> HandleRecords]  BY <1>1, <1>2 DEF HandlesInv
<1>4. \A p \in Objs : HandleOK(h'[p]) /\ (h'[p].unheard => log.quieted)
  BY <1>1, <1>2 DEF HandlesInv
<1>5. LogOK'  BY <1>1 DEF HandlesInv, LogOK
<1> QED BY <1>1, <1>3, <1>4, <1>5 DEF HandlesInv

\* One object changes and a failure is logged.
LEMMA BecomesLoggingKeeps ==
  ASSUME HandlesInv, NEW o \in Objs, NEW kind, NEW r, NEW level \in {Warn, Error},
         BecomesLogging(o, kind, r, level), Evolves(h[o], r)
  PROVE  HandlesInv'
<1> DEFINE u == r.unheard \/ ~Passes(log, level)
           q == [r EXCEPT !.unheard = u]
<1>1. h' = [h EXCEPT ![o] = q] /\ log' = write(log, level)
  BY DEF BecomesLogging
<1>2. r \in HandleRecords /\ HandleOK(r) /\ (r.unheard <=> h[o].unheard)
  BY DEF Evolves, HandleOK
<1>3. level \in 0..(LevelSize - 1)  BY DEF Warn, Error, LevelSize, Levels
<1>4. LogOK  BY DEF HandlesInv
<1>5. u => log.quieted  BY <1>2, <1>3, <1>4, WriteLogOK DEF HandlesInv
<1>6. u \in BOOLEAN  BY <1>2 DEF HandleRecords
<1> HIDE DEF u
<1>7. q \in HandleRecords /\ (q.unheard <=> u)  BY <1>2, <1>6 DEF HandleRecords
<1>8. LifeOK(q) /\ OneShotOK(q) /\ FamilyOK(q)
  BY <1>2 DEF HandleOK, HandleRecords, LifeOK, OneShotOK, FamilyOK
<1>9. HandleOK(q)  BY <1>7, <1>8 DEF HandleOK
<1> HIDE DEF q
<1>10. /\ log' \in [level : 0..LevelSize, registered : BOOLEAN, quieted : BOOLEAN,
                    name : {"none", "Debug", "Info", "Warn", "Error"}]
       /\ log'.level = log.level /\ (log'.quieted <=> log.quieted)
  BY <1>1, <1>3, <1>4, WriteLogOK
<1>11. h' \in [Objs -> HandleRecords]  BY <1>1, <1>7 DEF HandlesInv
<1>12. \A p \in Objs : HandleOK(h'[p]) /\ (h'[p].unheard => log'.quieted)
  BY <1>1, <1>5, <1>7, <1>9, <1>10 DEF HandlesInv
<1>13. LogOK'  BY <1>4, <1>10 DEF LogOK
<1> QED BY <1>11, <1>12, <1>13 DEF HandlesInv

\* Every step keeps the invariant.
LEMMA HandlesStepPreserves == ASSUME HandlesInv, [Next]_vars PROVE HandlesInv'
<1>1. /\ h \in [Objs -> HandleRecords] /\ LogOK
      /\ \A o \in Objs : HandleOK(h[o]) /\ (h[o].unheard => log.quieted)
  BY DEF HandlesInv
<1>2. ASSUME h' = h, LogOK', log.quieted => log'.quieted PROVE HandlesInv'
  BY <1>1, <1>2 DEF HandlesInv
<1>3. CASE RegisterInterface
  <2>1. h' = h /\ log' = [log EXCEPT !.registered = TRUE]
    BY <1>3 DEF RegisterInterface, registerInterface
  <2>2. LogOK' /\ (log.quieted => log'.quieted)  BY <1>1, <2>1 DEF LogOK
  <2> QED BY <1>2, <2>1, <2>2
<1>4. CASE SetLevel
  <2>1. PICK level \in 0..LevelSize :
           log' = [log EXCEPT !.level = level, !.quieted = log.quieted \/ level > Warn]
    BY <1>4 DEF SetLevel, setLevel
  <2>2. LogOK' /\ (log.quieted => log'.quieted)
    <3> DEFINE quiet == log.quieted \/ level > Warn
    <3>1. quiet \in BOOLEAN /\ (log.quieted => quiet) /\ (~quiet => level <= Warn)
      <4>1. level \in Nat  BY <2>1 DEF LevelSize, Levels
      <4> QED BY <1>1, <4>1 DEF LogOK, Warn
    <3> HIDE DEF quiet
    <3>2. log' = [log EXCEPT !.level = level, !.quieted = quiet]  BY <2>1 DEF quiet
    <3>3. log'.level = level /\ (log'.quieted <=> quiet)  BY <1>1, <3>2 DEF LogOK
    <3> QED BY <1>1, <3>1, <3>2, <3>3 DEF LogOK
  <2> QED BY <1>2, <1>4, <2>2 DEF SetLevel
<1>5. CASE Log
  <2>1. PICK level \in 0..(LevelSize - 1) : log' = write(log, level)  BY <1>5 DEF Log
  <2>2. LogOK' /\ (log.quieted => log'.quieted)
    BY <1>1, <2>1, WriteLogOK DEF LogOK
  <2> QED BY <1>2, <1>5, <2>2 DEF Log
<1>6. ASSUME NEW o \in Objs, Start(o) PROVE HandlesInv'
  <2>1. /\ h[o].obj = "live" /\ h[o].uv = "open"
        /\ h[o].kind = "timer" /\ Becomes(o, "timer", timerStart(h[o]))
    BY <1>6 DEF Start, Usable, Becomes
  <2> QED BY <1>1, <2>1, TimerStartOK, BecomesKeeps
<1>7. ASSUME NEW o \in Objs, SetTimerRepeat(o) PROVE HandlesInv'
  <2>1. PICK repeat \in BOOLEAN : Becomes(o, "timer", setTimerRepeat(h[o], repeat))
    BY <1>7 DEF SetTimerRepeat
  <2>2. h[o].kind = "timer"  BY <2>1 DEF Becomes
  <2> QED BY <1>1, <2>1, <2>2, TimerRepeatOK, BecomesKeeps
<1>8. ASSUME NEW o \in Objs, BindAndRead(o) PROVE HandlesInv'
  <2>1. PICK ipv \in Ipvs, ok \in BOOLEAN :
           /\ ok => h[o].bound = "none"
           /\ Becomes(o, "udp", bindAndRead(h[o], ipv, ok))
    BY <1>8 DEF BindAndRead
  <2>2. h[o].kind = "udp" /\ h[o].obj = "live" /\ h[o].uv = "open"
    BY <1>8, <2>1 DEF BindAndRead, Usable, Becomes
  <2> QED BY <1>1, <2>1, <2>2, BindOK, BecomesKeeps
<1>9. ASSUME NEW o \in Objs, Send(o) PROVE HandlesInv'
  <2>1. PICK taken \in BOOLEAN : Becomes(o, "udp", send(h[o], taken))
    BY <1>9 DEF Send
  <2>2. h[o].kind = "udp" /\ h[o].obj = "live" /\ h[o].uv = "open"
    BY <1>9, <2>1 DEF Send, Usable, Becomes
  <2> QED BY <1>1, <2>1, <2>2, UdpOK, BecomesKeeps
<1>10. ASSUME NEW o \in Objs, Lookup(o) PROVE HandlesInv'
  <2>1. PICK taken \in BOOLEAN : Becomes(o, "dns", GetIP(h[o], taken))
    BY <1>10 DEF Lookup
  <2>2. h[o].kind = "dns" /\ h[o].obj = "live"
    BY <1>10, <2>1 DEF Lookup, Usable, Becomes
  <2> QED BY <1>1, <2>1, <2>2, DnsOK, BecomesKeeps
<1>11. ASSUME NEW o \in Objs, Close(o) PROVE HandlesInv'
  <2> DEFINE r == [h[o] EXCEPT !.active = FALSE]
  <2>1. /\ h[o].obj = "live" /\ h[o].kind \in {"timer", "udp", "signal"}
        /\ \E kind \in {"timer", "udp", "signal"} :
              Becomes(o, kind, UvClose(r)) \/ Becomes(o, kind, UvClose(h[o]))
    BY <1>11 DEF Close, Usable, Becomes, timerClose, udpClose, signalClose
  <2>2. Evolves(h[o], r) /\ r.obj = "live"  BY <1>1, <2>1, StoppedOK
  <2> HIDE DEF r
  <2>3. HandleOK(r) /\ r.kind = h[o].kind /\ (r.unheard <=> h[o].unheard)
    BY <2>2 DEF Evolves
  <2>4. Evolves(r, UvClose(r))  BY <2>1, <2>2, <2>3, UvCloseOK
  <2>5. Evolves(h[o], UvClose(r))  BY <2>3, <2>4 DEF Evolves
  <2>6. Evolves(h[o], UvClose(h[o]))  BY <1>1, <2>1, UvCloseOK
  <2> QED BY <2>1, <2>5, <2>6, BecomesKeeps
<1>12. ASSUME NEW o \in Objs, Destroy(o) PROVE HandlesInv'
  <2> DEFINE d == [h[o] EXCEPT !.obj = "dead"]
  <2>1. /\ h[o].obj = "live"
        /\ \/ /\ h[o].answered > 0 /\ h[o].kind \in {"timer", "signal"}
              /\ Becomes(o, h[o].kind, d)
           \/ /\ h[o].answered > 0 /\ h[o].kind = "udp"
              /\ Becomes(o, h[o].kind, udpDestroyed(h[o]))
           \/ h[o].kind = "idle" /\ Becomes(o, h[o].kind, idleDestroyed(h[o]))
           \/ h[o].sends = 0 /\ h[o].kind = "dns" /\ Becomes(o, h[o].kind, d)
    BY <1>12 DEF Destroy, Becomes
  <2> HIDE DEF d
  <2>2. /\ h[o].answered > 0 /\ h[o].kind \in {"timer", "signal"} => Evolves(h[o], d)
        /\ h[o].sends = 0 /\ h[o].kind = "dns" => Evolves(h[o], d)
        /\ h[o].answered > 0 /\ h[o].kind = "udp" => Evolves(h[o], udpDestroyed(h[o]))
        /\ h[o].kind = "idle" => Evolves(h[o], idleDestroyed(h[o]))
    BY <1>1, <2>1, DestroyedOK DEF d
  <2> QED BY <2>1, <2>2, BecomesKeeps
<1>13. ASSUME NEW o \in Objs, Fire(o) PROVE HandlesInv'
  <2>0. /\ HandleOK(h[o]) /\ h[o].obj = "live" /\ h[o].active
        /\ Evolves(h[o], h[o])
    BY <1>1, <1>13 DEF Fire, Evolves
  <2>1. CASE Becomes(o, "timer", onTimeOut(h[o]))
    BY <2>0, <2>1, TimeOutOK, BecomesKeeps DEF Becomes
  <2>2. ASSUME NEW nread \in {0, 1}, Becomes(o, "udp", onMesageReceive(h[o], nread))
        PROVE  HandlesInv'
    <3>1. Evolves(h[o], onMesageReceive(h[o], nread))  BY <2>0, <2>2, UdpOK DEF Becomes
    <3> QED BY <2>2, <3>1, BecomesKeeps
  <2>3. CASE BecomesLogging(o, "udp", onMesageReceive(h[o], -1), Error)
    <3>1. Evolves(h[o], onMesageReceive(h[o], -1))
      BY <2>0, <2>3, UdpOK DEF BecomesLogging
    <3> QED BY <2>3, <3>1, BecomesLoggingKeeps
  <2>4. CASE Becomes(o, "signal", onSignal(h[o], TRUE))
    <3>1. onSignal(h[o], TRUE) = Fired(h[o])  BY DEF onSignal
    <3>2. Evolves(h[o], Fired(h[o]))  BY <2>0, <2>4, OtherFiredOK DEF Becomes
    <3> QED BY <2>4, <3>1, <3>2, BecomesKeeps
  <2>5. CASE BecomesLogging(o, "signal", onSignal(h[o], FALSE), Warn)
    <3>1. onSignal(h[o], FALSE) = h[o]  BY DEF onSignal
    <3> QED BY <2>0, <2>5, <3>1, BecomesLoggingKeeps
  <2>6. CASE Becomes(o, "idle", idleCallback(h[o]))
    <3>1. Evolves(h[o], idleCallback(h[o]))
      BY <2>0, <2>6, OtherFiredOK DEF Becomes, idleCallback
    <3> QED BY <2>6, <3>1, BecomesKeeps
  <2> QED BY <1>13, <2>1, <2>2, <2>3, <2>4, <2>5, <2>6 DEF Fire
<1>14. ASSUME NEW o \in Objs, SendDone(o) PROVE HandlesInv'
  <2>1. /\ h[o].kind = "udp" /\ h[o].obj = "live" /\ h[o].sends > 0
        /\ \/ Becomes(o, "udp", sendDone(h[o]))
           \/ BecomesLogging(o, "udp", sendDone(h[o]), Error)
    BY <1>14 DEF SendDone, Becomes, BecomesLogging
  <2>2. Evolves(h[o], sendDone(h[o]))  BY <1>1, <2>1, UdpOK
  <2> QED BY <2>1, <2>2, BecomesKeeps, BecomesLoggingKeeps
<1>15. ASSUME NEW o \in Objs, LookupDone(o) PROVE HandlesInv'
  <2>1. PICK status \in {-1, 0}, ipv \in Ipvs :
           Becomes(o, "dns", onDNSGet(h[o], status, ipv))
    BY <1>15 DEF LookupDone
  <2>2. h[o].kind = "dns" /\ h[o].obj = "live" /\ h[o].sends > 0
    BY <1>15, <2>1 DEF LookupDone, Becomes
  <2>3. Evolves(h[o], onDNSGet(h[o], status, ipv))  BY <1>1, <2>2, DnsOK
  <2> QED BY <2>1, <2>3, BecomesKeeps
<1>16. ASSUME NEW o \in Objs, Closed(o) PROVE HandlesInv'
  <2> DEFINE f == [UvClosed(h[o]) EXCEPT !.mem = "freed"]
  <2>1. /\ h[o].obj = "live" /\ h[o].uv = "closing" /\ h[o].sends = 0
        /\ \/ h[o].kind \in {"timer", "signal"} /\ Becomes(o, h[o].kind, f)
           \/ h[o].kind = "udp" /\ Becomes(o, h[o].kind, UvClosed(h[o]))
    BY <1>16 DEF Closed, Becomes, timerClosed, udpClosed, signalClosed
  <2>2. /\ h[o].kind \in {"timer", "signal"} => Evolves(h[o], f)
        /\ h[o].kind = "udp" => Evolves(h[o], UvClosed(h[o]))
    BY <1>1, <2>1, UvClosedOK
  <2> HIDE DEF f
  <2> QED BY <2>1, <2>2, BecomesKeeps
<1>17. CASE UNCHANGED vars
  BY <1>1, <1>2, <1>17 DEF vars, LogOK
<1> QED
  BY <1>3, <1>4, <1>5, <1>6, <1>7, <1>8, <1>9, <1>10, <1>11, <1>12, <1>13, <1>14,
     <1>15, <1>16, <1>17
  DEF Next

-----------------------------------------------------------------------------
(* Theorems *)

\* The inductive invariant, for any number of objects of any kind.
THEOREM HandlesInvariant == Spec => []HandlesInv
<1>1. Init => HandlesInv
  <2> SUFFICES ASSUME Init PROVE HandlesInv  OBVIOUS
  <2>1. \A o \in Objs : h[o] \in News  BY DEF Init
  <2>2. \A o \in Objs : HandleOK(h[o]) /\ ~h[o].unheard  BY <2>1, NewsOK
  <2>3. h \in [Objs -> HandleRecords]
    <3>1. \A o \in Objs : h[o] \in HandleRecords  BY <2>2 DEF HandleOK
    <3> QED BY <3>1 DEF Init
  <2>4. LogOK  BY DEF Init, NewLog, LogOK, LevelSize, Levels, Warn
  <2> QED BY <2>2, <2>3, <2>4 DEF HandlesInv
<1> QED BY <1>1, HandlesStepPreserves, PTL DEF Spec

\* No running handle belongs to a destroyed object, however often close() was
\* called; and a Timer, Udp or Signal closed at most once, or a DNSGet, is there
\* as long as libuv has its handle or request, stopped ones included, so that the
\* callback of close() is the right moment to destroy it.  An Idle has no such
\* moment and is not covered by the second part.
THEOREM HandlesNoDeadCallback == Spec => []NoDeadCallback
<1>0. ASSUME HandlesInv, NEW o \in Objs, h[o].active
      PROVE  h[o].obj = "live" /\ h[o].mem = "held"
  <2> DEFINE r == h[o]
  <2>1. r \in HandleRecords /\ LifeOK(r) /\ r.active
    BY <1>0 DEF HandlesInv, HandleOK
  <2> HIDE DEF r
  <2>2. /\ r.kind \in {"timer", "udp", "signal", "idle", "dns"}
        /\ r.mem \in {"held", "freed"}
    BY <2>1 DEF HandleRecords
  <2>3. r.uv = "open" /\ r.obj = "live"  BY <2>1 DEF LifeOK
  <2>4. r.mem = "held"  BY <2>1, <2>2, <2>3 DEF LifeOK
  <2> QED BY <2>3, <2>4 DEF r
<1>1. ASSUME HandlesInv, NEW o \in Objs, h[o].kind # "idle", h[o].asked <= 1,
             InUse(h[o])
      PROVE  h[o].obj = "live" /\ h[o].mem = "held"
  <2> DEFINE r == h[o]
  <2>1. r \in HandleRecords /\ LifeOK(r)  BY <1>1 DEF HandlesInv, HandleOK
  <2> HIDE DEF r
  <2>2. /\ r.kind \in {"timer", "udp", "signal", "idle", "dns"}
        /\ r.obj \in {"live", "dead"} /\ r.uv \in {"open", "closing", "closed"}
        /\ r.mem \in {"held", "freed"} /\ r.asked \in Nat /\ r.answered \in Nat
        /\ r.sends \in Nat
    BY <2>1 DEF HandleRecords
  <2>3. /\ r.kind # "idle" /\ r.asked <= 1
        /\ IF r.kind = "dns" THEN r.sends > 0 ELSE r.uv # "closed"
    BY <1>1 DEF InUse, r
  <2>4. r.uv # "closed"  BY <2>1, <2>3 DEF LifeOK
  <2>5. r.answered = 0  BY <2>1, <2>2, <2>3, <2>4 DEF LifeOK
  <2>6. r.obj = "live"
    <3>1. ~(r.answered > 0)  BY <2>5
    <3>2. CASE r.kind \in {"timer", "signal", "udp"}  BY <2>1, <2>2, <3>1, <3>2 DEF LifeOK
    <3>3. CASE r.kind = "dns"
      <4>1. r.sends # 0  BY <2>2, <2>3, <3>3
      <4> QED BY <2>1, <2>2, <2>3, <3>3, <4>1 DEF LifeOK
    <3> QED BY <2>2, <2>3, <3>2, <3>3
  <2>7. r.mem = "held"  BY <2>1, <2>2, <2>4, <2>6 DEF LifeOK
  <2> QED BY <2>6, <2>7 DEF r
<1>2. HandlesInv => NoDeadCallback  BY <1>0, <1>1 DEF NoDeadCallback
<1> QED BY <1>2, HandlesInvariant, PTL

\* A timer that was never set to repeat runs at most once.
THEOREM HandlesOneShotOnce == Spec => []OneShotOnce
<1>1. HandlesInv => OneShotOnce
  <2> SUFFICES ASSUME HandlesInv, NEW o \in Objs, h[o].kind = "timer",
                      h[o].fired > 1, ~h[o].repeated
               PROVE  FALSE
    BY DEF OneShotOnce
  <2>1. OneShotOK(h[o]) /\ h[o].fired \in 0..2
    BY DEF HandlesInv, HandleOK, HandleRecords
  <2> QED BY <2>1 DEF OneShotOK
<1> QED BY <1>1, HandlesInvariant, PTL

\* A datagram's sender is read with the family the socket is bound to, whatever
\* attempts were made before it was bound; after that, until it is asked to bind to
\* the other family.
THEOREM HandlesSenderNamedRight == Spec => []SenderNamedRight
<1>1. HandlesInv => SenderNamedRight
  BY DEF HandlesInv, HandleOK, FamilyOK, SenderNamedRight
<1> QED BY <1>1, HandlesInvariant, PTL

\* Failures that only the log hears of get through it unless it was quieted.
THEOREM HandlesFailuresHeard == Spec => []FailuresHeard
<1>1. HandlesInv => FailuresHeard
  BY DEF HandlesInv, LogOK, FailuresHeard
<1> QED BY <1>1, HandlesInvariant, PTL
=============================================================================
