-------------------------- MODULE TcpServer_proofs --------------------------
(***************************************************************************)
(* Theorems about TcpServer for every set of connections, names, timeouts   *)
(* and writes.  First come the theorems about the wheel, for every timeout,  *)
(* which speak of TimerWheel alone; the server is then shown to drive the   *)
(* wheel only in the ways WheelSpec allows.                                 *)
(***************************************************************************)
EXTENDS TcpServer, TLAPS

-----------------------------------------------------------------------------
(* The wheel *)

\* The inductive invariant: where a value sits tells how old it is.
WheelInv == WheelTypeOK /\ AgeMatchesSlot

\* Advancing by one slot makes every other slot one tick older; the slot the
\* wheel arrives at was the oldest.
LEMMA Advance ==
  ASSUME timeoutSec \in Nat, index \in Nat, index < timeoutSec
  PROVE  /\ NextIndex \in 0..(timeoutSec - 1)
         /\ SlotAge(NextIndex) = timeoutSec - 1
         /\ \A s \in 0..(timeoutSec - 1) :
               SlotAge(s) \in 0..(timeoutSec - 1)
         /\ \A s \in 0..(timeoutSec - 1) : s # NextIndex =>
               (IF s <= NextIndex THEN NextIndex - s
                                  ELSE NextIndex + timeoutSec - s) = SlotAge(s) + 1
  BY DEF NextIndex, SlotAge

\* setTimeout() and start() happen while the wheel is empty, or change nothing.
LEMMA SetTimeoutPreserves ==
  ASSUME WheelInv, NEW n \in Timeouts, setTimeout(n) PROVE WheelInv'
  BY WheelAssumption DEF WheelInv, WheelTypeOK, AgeMatchesSlot, setTimeout, SlotAge,
     Held, HeldIn

\* start() on a wheel that is empty or already has its size.
LEMMA StartPreserves == ASSUME WheelInv, start PROVE WheelInv'
<1> USE DEF WheelInv, WheelTypeOK
<1>1. CASE timeoutSec > 0 /\ started
  <2>1. wheel' = wheel  BY <1>1 DEF start
  <2>2. UNCHANGED wheelVars  BY <1>1, <2>1 DEF start, wheelVars
  <2> QED BY <2>2 DEF wheelVars, AgeMatchesSlot, SlotAge, Held, HeldIn
<1>2. CASE timeoutSec > 0 /\ ~started
  <2>1. wheel' = [s \in 0..(timeoutSec - 1) |-> {}]  BY <1>2 DEF start
  <2>2. WheelTypeOK'  BY <1>2, <2>1 DEF start
  <2>3. Held' = {}  BY <2>1 DEF Held, HeldIn
  <2>4. AgeMatchesSlot'  BY <2>1, <2>3 DEF AgeMatchesSlot
  <2> QED BY <2>2, <2>4
<1>3. CASE ~(timeoutSec > 0)
  BY <1>3 DEF start, wheelVars, AgeMatchesSlot, SlotAge, Held, HeldIn
<1> QED BY <1>1, <1>2, <1>3

\* insert() puts the value, now of age 0, in the slot of age 0.
LEMMA InsertPreserves ==
  ASSUME WheelInv, started, NEW u \in Values, insertAll({u}) PROVE WheelInv'
<1> USE DEF WheelInv, WheelTypeOK
<1>1. /\ timeoutSec > 0 /\ index \in DOMAIN wheel
      /\ UNCHANGED <<timeoutSec, index, started>>
      /\ wheel' = [wheel EXCEPT ![index] = @ \cup {u}]
      /\ age' = [v \in Values |-> IF v \in {u} THEN 0 ELSE age[v]]
  BY DEF insertAll
<1>2. /\ DOMAIN wheel' = DOMAIN wheel
      /\ \A s \in DOMAIN wheel :
            wheel'[s] = IF s = index THEN wheel[s] \cup {u} ELSE wheel[s]
      /\ age'[u] = 0 /\ \A v \in Values : v # u => age'[v] = age[v]
  BY <1>1
<1>3. WheelTypeOK'  BY <1>1
<1>4. \A s \in DOMAIN wheel : SlotAge(s)' = SlotAge(s) /\ SlotAge(s) \in Nat
  BY <1>1 DEF SlotAge
<1>5. SlotAge(index) = 0  BY DEF SlotAge
<1>6. \A s \in DOMAIN wheel' : \A v \in wheel'[s] : age'[v] <= SlotAge(s)'
  <2> TAKE s \in DOMAIN wheel'
  <2> TAKE v \in wheel'[s]
  <2>1. s \in DOMAIN wheel /\ v \in Values  BY <1>2, <1>3
  <2>2. CASE v = u  BY <1>2, <1>4, <2>1, <2>2
  <2>3. CASE v # u
    <3>1. v \in wheel[s]  BY <1>2, <2>1, <2>3
    <3>2. age[v] <= SlotAge(s)  BY <2>1, <3>1 DEF AgeMatchesSlot
    <3> QED BY <1>2, <1>4, <2>1, <2>3, <3>2
  <2> QED BY <2>2, <2>3
<1>7. \A v \in Held' : \E s \in DOMAIN wheel' : v \in wheel'[s] /\ SlotAge(s)' = age'[v]
  <2> TAKE v \in Held'
  <2>1. CASE v = u  BY <1>1, <1>2, <1>4, <1>5, <2>1
  <2>2. CASE v # u
    <3>1. PICK s0 \in DOMAIN wheel' : v \in wheel'[s0]  BY DEF Held, HeldIn
    <3>2. s0 \in DOMAIN wheel /\ v \in wheel[s0] /\ v \in Values
      BY <1>2, <2>2, <3>1
    <3>3. v \in Held  BY <3>2 DEF Held, HeldIn
    <3>4. PICK s \in DOMAIN wheel : v \in wheel[s] /\ SlotAge(s) = age[v]
      BY <3>3 DEF AgeMatchesSlot
    <3>5. s \in DOMAIN wheel' /\ v \in wheel'[s]  BY <1>2, <3>4
    <3>6. SlotAge(s)' = age'[v]  BY <1>2, <1>4, <2>2, <3>2, <3>4
    <3> QED BY <3>5, <3>6
  <2> QED BY <2>1, <2>2
<1> QED BY <1>3, <1>6, <1>7 DEF AgeMatchesSlot

\* What a tick does to the slots and to the ages of the values still held.
LEMMA TickEffect ==
  ASSUME WheelInv, wheelCallback
  PROVE  /\ timeoutSec > 0 /\ index \in Nat /\ index < timeoutSec
         /\ DOMAIN wheel = 0..(timeoutSec - 1) /\ DOMAIN wheel' = DOMAIN wheel
         /\ timeoutSec' = timeoutSec /\ started' = started /\ started
         /\ index' = NextIndex /\ NextIndex \in DOMAIN wheel
         /\ wheel'[NextIndex] = {}
         /\ \A s \in DOMAIN wheel : s # NextIndex => wheel'[s] = wheel[s]
         /\ wheel' \in [0..(timeoutSec - 1) -> SUBSET Values]
         /\ age' \in [Values -> Nat]
         /\ \A v \in Held' : v \in Values /\ age'[v] = age[v] + 1
<1> USE DEF WheelInv, WheelTypeOK
<1>1. /\ timeoutSec > 0 /\ index \in Nat /\ index < timeoutSec
      /\ wheel \in [0..(timeoutSec - 1) -> SUBSET Values] /\ timeoutSec \in Nat
      /\ age \in [Values -> Nat]
  BY DEF wheelCallback
<1>2. NextIndex \in 0..(timeoutSec - 1)  BY <1>1, Advance
<1>3. /\ timeoutSec' = timeoutSec /\ started' = started /\ started
      /\ index' = NextIndex
      /\ wheel' = [wheel EXCEPT ![NextIndex] = {}]
      /\ age' = [v \in Values |-> IF v \in HeldIn(wheel') THEN age[v] + 1 ELSE 0]
  BY <1>1 DEF wheelCallback, Cleared
<1> HIDE DEF WheelInv, WheelTypeOK
<1>4. wheel' \in [0..(timeoutSec - 1) -> SUBSET Values]  BY <1>1, <1>2, <1>3
<1>5. age' \in [Values -> Nat]  BY <1>1, <1>3
<1>6. \A v \in Held' : v \in Values /\ age'[v] = age[v] + 1
  <2> TAKE v \in Held'
  <2>1. v \in HeldIn(wheel')  BY DEF Held, HeldIn
  <2>2. v \in Values  BY <1>4 DEF Held, HeldIn
  <2> QED BY <1>3, <2>1, <2>2
<1> QED BY <1>1, <1>2, <1>3, <1>4, <1>5, <1>6

\* A tick makes every surviving value and its slots one tick older.
LEMMA TickPreserves == ASSUME WheelInv, wheelCallback PROVE WheelInv'
<1>1. WheelTypeOK'
  <2>1. NextIndex \in Nat /\ NextIndex < timeoutSec /\ timeoutSec \in Nat
    BY TickEffect, Advance DEF WheelInv, WheelTypeOK
  <2> QED BY <2>1, TickEffect DEF WheelTypeOK
<1>2. ASSUME NEW s \in DOMAIN wheel', NEW v \in wheel'[s]
      PROVE  /\ s \in DOMAIN wheel /\ s # NextIndex /\ v \in wheel[s]
             /\ v \in Held' /\ age'[v] = age[v] + 1 /\ age[v] \in Nat
             /\ SlotAge(s)' = SlotAge(s) + 1 /\ SlotAge(s) \in Nat
  <2>1. s \in DOMAIN wheel /\ s # NextIndex  BY TickEffect
  <2>2. v \in wheel[s]  BY <2>1, TickEffect
  <2>3. v \in Held'  BY DEF Held, HeldIn
  <2>4. age'[v] = age[v] + 1 /\ age[v] \in Nat
    BY <2>3, TickEffect DEF WheelInv, WheelTypeOK
  <2>5. timeoutSec \in Nat  BY DEF WheelInv, WheelTypeOK
  <2>6. SlotAge(s)' = SlotAge(s) + 1 /\ SlotAge(s) \in Nat
    <3>1. SlotAge(s)' = IF s <= NextIndex THEN NextIndex - s
                                          ELSE NextIndex + timeoutSec - s
      BY TickEffect DEF SlotAge
    <3>2. s \in 0..(timeoutSec - 1)  BY <2>1, TickEffect
    <3>3. index \in Nat /\ index < timeoutSec  BY TickEffect
    <3>4. /\ SlotAge(s) \in 0..(timeoutSec - 1)
          /\ (IF s <= NextIndex THEN NextIndex - s
                                ELSE NextIndex + timeoutSec - s) = SlotAge(s) + 1
      BY <2>1, <2>5, <3>2, <3>3, Advance
    <3> QED BY <3>1, <3>4
  <2> QED BY <2>1, <2>2, <2>3, <2>4, <2>6
<1>3. \A s \in DOMAIN wheel' : \A v \in wheel'[s] : age'[v] <= SlotAge(s)'
  <2> TAKE s \in DOMAIN wheel'
  <2> TAKE v \in wheel'[s]
  <2>1. age[v] <= SlotAge(s)  BY <1>2 DEF WheelInv, AgeMatchesSlot
  <2> QED BY <1>2, <2>1
<1>4. \A v \in Held' : \E s \in DOMAIN wheel' : v \in wheel'[s] /\ SlotAge(s)' = age'[v]
  <2> TAKE v \in Held'
  <2>1. PICK s0 \in DOMAIN wheel' : v \in wheel'[s0]  BY DEF Held, HeldIn
  <2>2. s0 \in DOMAIN wheel /\ v \in wheel[s0] /\ s0 # NextIndex  BY <1>2, <2>1
  <2>3. v \in Held  BY <2>2 DEF Held, HeldIn
  <2>4. PICK s \in DOMAIN wheel : v \in wheel[s] /\ SlotAge(s) = age[v]
    BY <2>3 DEF WheelInv, AgeMatchesSlot
  <2>5. timeoutSec \in Nat /\ age[v] \in Nat
    BY TickEffect DEF WheelInv, WheelTypeOK
  <2>6. s # NextIndex
    <3> SUFFICES ASSUME s = NextIndex PROVE FALSE  OBVIOUS
    <3>1. age[v] = timeoutSec - 1  BY <2>4, <2>5, TickEffect, Advance
    <3>2. age[v] <= SlotAge(s0)  BY <2>2 DEF WheelInv, AgeMatchesSlot
    <3>3. SlotAge(s0) \in 0..(timeoutSec - 1)  BY <2>2, <2>5, TickEffect, Advance
    <3>4. SlotAge(s0)' = timeoutSec  BY <1>2, <2>1, <2>5, <3>1, <3>2, <3>3
    <3>5. SlotAge(s0)' \in 0..(timeoutSec - 1)
      <4>1. s0 \in 0..(timeoutSec - 1) /\ NextIndex \in 0..(timeoutSec - 1)
        BY <2>2, TickEffect
      <4>2. SlotAge(s0)' = IF s0 <= NextIndex THEN NextIndex - s0
                                              ELSE NextIndex + timeoutSec - s0
        BY TickEffect DEF SlotAge
      <4> QED BY <2>5, <4>1, <4>2
    <3> QED BY <2>5, <3>4, <3>5
  <2>7. s \in DOMAIN wheel' /\ v \in wheel'[s]  BY <2>4, <2>6, TickEffect
  <2> QED BY <1>2, <2>4, <2>7
<1> QED BY <1>1, <1>3, <1>4 DEF WheelInv, AgeMatchesSlot

\* Every step of the wheel keeps the invariant.
LEMMA WheelStepPreserves ==
  ASSUME WheelInv, [WheelNext]_wheelVars PROVE WheelInv'
<1>1. CASE UNCHANGED wheelVars
  BY <1>1 DEF wheelVars, WheelInv, WheelTypeOK, AgeMatchesSlot, SlotAge, Held, HeldIn
<1> QED BY <1>1, SetTimeoutPreserves, StartPreserves, InsertPreserves, TickPreserves
        DEF WheelNext

\* The wheel starts with no slots.
LEMMA WheelInitOK == ASSUME WheelInit PROVE WheelInv
<1>1. WheelTypeOK  BY DEF WheelInit, WheelTypeOK
<1>2. DOMAIN wheel = {}  BY DEF WheelInit
<1>3. Held = {}  BY <1>2 DEF Held, HeldIn
<1> QED BY <1>1, <1>2, <1>3 DEF WheelInv, AgeMatchesSlot

\* The slot a value's age names is one of the wheel's timeoutSec_ slots.
LEMMA HeldInTime == ASSUME WheelInv PROVE NotLate
<1> SUFFICES ASSUME NEW v \in Held PROVE age[v] < timeoutSec
  BY DEF NotLate
<1>1. PICK s \in DOMAIN wheel : v \in wheel[s] /\ SlotAge(s) = age[v]
  BY DEF WheelInv, AgeMatchesSlot
<1>2. started  BY <1>1 DEF WheelInv, WheelTypeOK
<1>3. /\ timeoutSec \in Nat /\ index \in Nat /\ index < timeoutSec
      /\ s \in 0..(timeoutSec - 1)
  BY <1>1, <1>2 DEF WheelInv, WheelTypeOK
<1> QED BY <1>1, <1>3 DEF SlotAge

\* Only a tick drops a value, and only from the oldest slot.
LEMMA DropOnTime ==
  ASSUME WheelInv, [WheelNext]_wheelVars, NEW v \in Held, v \notin Held'
  PROVE  age[v] + 1 = timeoutSec
<1>0. WheelNext  BY DEF wheelVars, Held, HeldIn
<1>1. PICK s \in DOMAIN wheel : v \in wheel[s] /\ SlotAge(s) = age[v]
  BY DEF WheelInv, AgeMatchesSlot
<1>2. started  BY <1>1 DEF WheelInv, WheelTypeOK
<1>3. CASE wheelCallback
  <2>1. s = NextIndex
    <3> SUFFICES ASSUME s # NextIndex PROVE FALSE  OBVIOUS
    <3>1. s \in DOMAIN wheel' /\ v \in wheel'[s]  BY <1>1, <1>3, TickEffect
    <3> QED BY <3>1 DEF Held, HeldIn
  <2>2. timeoutSec \in Nat  BY DEF WheelInv, WheelTypeOK
  <2> QED BY <1>1, <1>3, <2>1, <2>2, TickEffect, Advance
<1>4. CASE start
  <2>1. s \in DOMAIN wheel' /\ v \in wheel'[s]
    BY <1>1, <1>2, <1>4 DEF start, WheelInv, WheelTypeOK, wheelVars
  <2> QED BY <2>1 DEF Held, HeldIn
<1>5. CASE \E n \in Timeouts : setTimeout(n)  BY <1>2, <1>5 DEF setTimeout
<1>6. CASE \E u \in Values : insertAll({u})
  <2>1. s \in DOMAIN wheel' /\ v \in wheel'[s]
    BY <1>1, <1>6 DEF insertAll
  <2> QED BY <2>1 DEF Held, HeldIn
<1> QED BY <1>0, <1>3, <1>4, <1>5, <1>6 DEF WheelNext

\* The index stays inside the wheel and ages match slots, in every state.
THEOREM WheelInvariant == WheelSpec => []WheelInv
BY WheelInitOK, WheelStepPreserves, PTL DEF WheelSpec

\* No value outlives its timeout: what is not inserted again is destroyed
\* within timeoutSec_ ticks, for every timeout.
THEOREM WheelNotLate == WheelSpec => []NotLate
BY HeldInTime, WheelInvariant, PTL

\* No value is destroyed before its timeout: an insert() always buys the full
\* timeoutSec_ ticks, even when older slots holding the value are cleared.
THEOREM WheelNotEarly == WheelSpec => NotEarly
<1>1. ASSUME WheelInv, [WheelNext]_wheelVars
      PROVE  [\A v \in Held : v \notin Held' => age[v] + 1 = timeoutSec]_wheelVars
  BY <1>1, DropOnTime
<1> QED BY <1>1, WheelInvariant, PTL DEF WheelSpec, NotEarly

\* The ages recorded for the held values are what their slots say.
THEOREM WheelAgeMatchesSlot == WheelSpec => []AgeMatchesSlot
<1>1. WheelInv => AgeMatchesSlot  BY DEF WheelInv
<1> QED BY <1>1, WheelInvariant, PTL

-----------------------------------------------------------------------------
(* The server's invariant *)

\* What is true of every record, whatever happens: its types, where its writes
\* are, and that close() drops the callbacks when it closes the handle.
RecordOK(r) ==
    /\ r \in ConnRecords
    /\ r.asked = r.answered + r.inflight + r.queued
    /\ r.hooked <=> r.uv = "open"

RecordsOK(rec) ==
    /\ rec \in [Conns -> ConnRecords]
    /\ \A c \in Conns : RecordOK(rec[c])

\* RegistryExact of records rec and registry reg; entries stand under the name
\* of their connection.
RegistryOK(rec, reg) ==
    /\ reg \in [Names -> Conns \cup {NoConn}]
    /\ \A n \in Names : reg[n] # NoConn => rec[reg[n]].name = n
    /\ \A c \in Conns :
          /\ rec[c].obj = "live" <=> reg[rec[c].name] = c
          /\ rec[c].told = IF rec[c].obj = "dead" THEN 1 ELSE 0

\* A server that listens has its wheel running, and one that never had an
\* accepter has no connections.
AccepterOK ==
    /\ accepter \in {"none", "bound", "listening", "closing", "closed"}
    /\ accepter = "listening" /\ timeoutSec > 0 => started
    /\ accepter = "none" => \A c \in Conns : conn[c].obj # "live"

ServerInv ==
    /\ RecordsOK(conn)
    /\ RegistryOK(conn, registry)
    /\ AccepterOK
    /\ HeartbeatWatches

\* With closes that wait for the last one, an object and its handle go through
\* their lives together.
Lives(r) ==
    /\ r.obj = "none" => r.uv = "none" /\ ~r.shut /\ r.inflight = 0
    /\ r.obj = "live" => r.uv \in {"open", "closing"}
    /\ r.obj = "dead" => r.uv = "closed" /\ ~r.shut /\ r.inflight = 0

\* Record q is r after a change that leaves its place in the registry alone.
Follows(r, q) ==
    /\ RecordOK(q)
    /\ q.name = r.name /\ q.obj = r.obj /\ q.told = r.told
    /\ q.hooked => r.hooked

AllLive(rec) == \A c \in Conns : Lives(rec[c])

\* From records old to records new, nothing comes alive or is hooked again.
NoRevival(old, new) ==
    \A c \in Conns : /\ new[c].obj = "live" => old[c].obj = "live"
                     /\ new[c].hooked => old[c].hooked

-----------------------------------------------------------------------------
(* What the operations of a connection do to its record *)

USE ServerAssumption

\* close() stops reading and drops the callbacks together with the handle.
LEMMA ClosingOK ==
  ASSUME NEW r, RecordOK(r)
  PROVE  /\ RecordOK(Closing(r))
         /\ Closing(r).name = r.name /\ Closing(r).obj = r.obj
         /\ Closing(r).told = r.told /\ ~Closing(r).hooked
  BY DEF RecordOK, ConnRecords, Closing

\* The end of a close is told once more and destroys the object.
LEMMA CompletedOK ==
  ASSUME NEW r, RecordOK(r)
  PROVE  /\ RecordOK(Completed(r))
         /\ Completed(r).name = r.name /\ Completed(r).obj = "dead"
         /\ Completed(r).told = r.told + 1 /\ (Completed(r).hooked <=> r.hooked)
<1>1. r.told + 1 \in Nat  BY DEF RecordOK, ConnRecords
<1>2. \A k \in Nat : [r EXCEPT !.told = k, !.obj = "dead"] \in ConnRecords
  BY DEF RecordOK, ConnRecords
<1>3. Completed(r) \in ConnRecords  BY <1>1, <1>2 DEF Completed
<1> QED BY <1>3 DEF RecordOK, ConnRecords, Completed

\* write() finds a place for the request or answers it.
LEMMA WriteOK ==
  ASSUME NEW r \in ConnRecords, r.asked = r.answered + r.inflight + r.queued + 1,
         r.hooked <=> r.uv = "open", NEW q \in WriteOutcomes(r)
  PROVE  Follows(r, q)
  BY DEF Follows, RecordOK, ConnRecords, WriteOutcomes

\* The callbacks of reads, shutdowns and writes leave a record in its place.
LEMMA CallbacksOK ==
  ASSUME NEW r, RecordOK(r)
  PROVE  /\ Follows(r, ReadFailed(r)) /\ Follows(r, ReadEnded(r))
         /\ Follows(r, [r EXCEPT !.shut = FALSE])
         /\ r.inflight > 0 => Follows(r, WriteDoneRec(r))
<1>1. Follows(r, ReadFailed(r))  BY DEF Follows, ReadFailed, RecordOK, ConnRecords
<1>2. Follows(r, ReadEnded(r))  BY DEF Follows, ReadEnded, RecordOK, ConnRecords
<1>3. Follows(r, [r EXCEPT !.shut = FALSE])  BY DEF Follows, RecordOK, ConnRecords
<1>4. ASSUME r.inflight > 0 PROVE Follows(r, WriteDoneRec(r))
  <2>1. r.inflight - 1 \in 0..MaxWrites /\ r.answered + 1 \in 0..MaxWrites
    BY <1>4 DEF RecordOK, ConnRecords
  <2>2. WriteDoneRec(r) \in ConnRecords
    BY <2>1 DEF RecordOK, WriteDoneRec, ConnRecords
  <2> QED BY <2>2 DEF Follows, WriteDoneRec, RecordOK, ConnRecords
<1> QED BY <1>1, <1>2, <1>3, <1>4

-----------------------------------------------------------------------------
(* Closing connections by name *)

\* Closing any set of names, on records that agree with the registry, leaves
\* records that agree with it.  Nothing but the end of a close changes what is
\* registered, and nothing is hooked again.
LEMMA CloseKeepsOK ==
  ASSUME NEW rec, RecordsOK(rec), RegistryOK(rec, registry),
         NEW ns \in SUBSET Names, closeConnections(rec, ns)
  PROVE  /\ RecordsOK(conn')
         /\ RegistryOK(conn', registry')
         /\ NoRevival(rec, conn')
         /\ \A c \in Targets(ns) : ~conn'[c].hooked
<1> DEFINE again == {c \in Targets(ns) : rec[c].uv # "open"}
<1>1. Targets(ns) \subseteq Conns  BY DEF Targets, RegistryOK
<1>2. /\ conn' = [c \in Conns |->
                    IF c \in again THEN Completed(Closing(rec[c]))
                    ELSE IF c \in Targets(ns) THEN Closing(rec[c])
                    ELSE rec[c]]
      /\ registry' = [n \in Names |->
                        IF registry[n] \in again THEN NoConn ELSE registry[n]]
  BY DEF closeConnections
<1>3. \A c \in again : rec[c].obj = "live" /\ rec[c].told = 0
  <2> TAKE c \in again
  <2>1. PICK n \in ns : c = registry[n] /\ c # NoConn  BY DEF Targets
  <2>2. c \in Conns /\ rec[c].name = n  BY <1>1, <2>1 DEF RegistryOK
  <2> QED BY <2>1, <2>2 DEF RegistryOK
<1>4. \A c \in Conns :
         /\ RecordOK(conn'[c]) /\ conn'[c].name = rec[c].name
         /\ conn'[c].obj = IF c \in again THEN "dead" ELSE rec[c].obj
         /\ conn'[c].told = IF c \in again THEN rec[c].told + 1 ELSE rec[c].told
         /\ conn'[c].hooked => rec[c].hooked
         /\ c \in Targets(ns) => ~conn'[c].hooked
  <2> TAKE c \in Conns
  <2>1. RecordOK(rec[c])  BY DEF RecordsOK
  <2>2. CASE c \in again
    <3>1. conn'[c] = Completed(Closing(rec[c]))  BY <1>2, <2>2
    <3>2. RecordOK(Closing(rec[c]))  BY <2>1, ClosingOK
    <3> HIDE DEF again
    <3> QED BY <2>1, <2>2, <3>1, <3>2, ClosingOK, CompletedOK
  <2>3. CASE c \notin again /\ c \in Targets(ns)
    <3>1. conn'[c] = Closing(rec[c])  BY <1>2, <2>3
    <3> HIDE DEF again
    <3> QED BY <2>1, <2>3, <3>1, ClosingOK
  <2>4. CASE c \notin again /\ c \notin Targets(ns)
    <3>1. conn'[c] = rec[c]  BY <1>2, <2>4
    <3> HIDE DEF again
    <3> QED BY <2>1, <2>4, <3>1
  <2> QED BY <2>2, <2>3, <2>4
<1>5. again \subseteq Conns  BY <1>1
<1>6. DOMAIN conn' = Conns /\ conn' = [c \in Conns |-> conn'[c]]  BY <1>2
<1> HIDE DEF again
<1>7. RecordsOK(conn')
  <2>1. \A c \in Conns : conn'[c] \in ConnRecords  BY <1>4 DEF RecordOK
  <2> QED BY <1>4, <1>6, <2>1 DEF RecordsOK
<1>8. RegistryOK(conn', registry')
  <2>1. registry' \in [Names -> Conns \cup {NoConn}]  BY <1>2 DEF RegistryOK
  <2>2. ASSUME NEW n \in Names, registry'[n] # NoConn
        PROVE  conn'[registry'[n]].name = n
    <3>1. registry'[n] = registry[n] /\ registry[n] \in Conns
      BY <1>2, <2>2 DEF RegistryOK
    <3> QED BY <1>4, <2>2, <3>1 DEF RegistryOK
  <2>3. ASSUME NEW c \in Conns
        PROVE  /\ conn'[c].obj = "live" <=> registry'[conn'[c].name] = c
               /\ conn'[c].told = IF conn'[c].obj = "dead" THEN 1 ELSE 0
    <3>1. rec[c].name \in Names  BY DEF RecordsOK, ConnRecords
    <3>2. CASE c \in again
      <4>1. registry'[conn'[c].name] # c  BY <1>2, <1>4, <3>1, <3>2
      <4> QED BY <1>3, <1>4, <3>2, <4>1
    <3>3. CASE c \notin again
      <4>1. registry'[conn'[c].name] = c <=> registry[rec[c].name] = c
        BY <1>2, <1>4, <3>1, <3>3
      <4> QED BY <1>4, <3>3, <4>1 DEF RegistryOK
    <3> QED BY <3>2, <3>3
  <2> QED BY <2>1, <2>2, <2>3 DEF RegistryOK
<1>9. NoRevival(rec, conn')  BY <1>4 DEF NoRevival
<1> QED BY <1>1, <1>4, <1>7, <1>8, <1>9

\* The names a callback closes are names.
LEMMA NamesClosed ==
  ASSUME RecordsOK(conn)
  PROVE  /\ \A cs \in SUBSET Conns : OnSocketClose(cs) \in SUBSET Names
         /\ \A c \in Conns : \A ns \in Reactions(c) : ns \in SUBSET Names
<1>1. \A c \in Conns : conn[c].name \in Names  BY DEF RecordsOK, ConnRecords
<1> QED BY <1>1 DEF OnSocketClose, Reactions

-----------------------------------------------------------------------------
(* The server's use of the wheel *)

\* A value in the wheel is in one that runs.
LEMMA HeldStarted ==
  ASSUME WheelInv PROVE /\ Held \subseteq Conns
                        /\ Held # {} => started
<1>1. ASSUME NEW c \in Held PROVE c \in Conns /\ started
  <2>1. PICK s \in DOMAIN wheel : c \in wheel[s]  BY DEF Held, HeldIn
  <2> QED BY <2>1 DEF WheelInv, WheelTypeOK
<1> QED BY <1>1

\* Inserting nothing changes nothing.
LEMMA InsertNothing ==
  ASSUME WheelInv, insertAll({}) PROVE UNCHANGED wheelVars
<1>1. CASE timeoutSec > 0
  <2>1. /\ wheel' = [wheel EXCEPT ![index] = @ \cup {}]
        /\ age' = [v \in Values |-> age[v]]
        /\ UNCHANGED <<timeoutSec, index, started>>
    BY <1>1 DEF insertAll
  <2>2. age' = age  BY <2>1 DEF WheelInv, WheelTypeOK
  <2>3. wheel' = wheel  BY <2>1 DEF WheelInv, WheelTypeOK
  <2> QED BY <2>1, <2>2, <2>3 DEF wheelVars
<1>2. CASE ~(timeoutSec > 0)  BY <1>2 DEF insertAll, wheelVars
<1> QED BY <1>1, <1>2

\* The wheel is only inserted into once it runs, and never given a new timeout
\* then: the server keeps the wheel's conditions of use.
LEMMA DrivesWheel ==
  ASSUME ServerInv, WheelInv, [Next]_vars
  PROVE  [WheelNext]_wheelVars
<1>1. ASSUME NEW n \in Timeouts, SetTimeout(n) PROVE WheelNext
  BY <1>1 DEF SetTimeout, WheelNext
<1>2. ASSUME BindAndListen PROVE [WheelNext]_wheelVars
  BY <1>2 DEF BindAndListen, WheelNext
<1>3. ASSUME Close \/ AccepterClosed PROVE UNCHANGED wheelVars
  BY <1>3 DEF Close, AccepterClosed, FinishServerClose
<1>4. ASSUME NEW n \in Names, CloseConnection(n) PROVE UNCHANGED wheelVars
  BY <1>4 DEF CloseConnection
<1>5. ASSUME NEW c \in Conns, NEW n \in Names, Accept(c, n)
      PROVE  [WheelNext]_wheelVars
  <2>1. CASE timeoutSec > 0
    <3>1. started  BY <1>5, <2>1 DEF Accept, Incoming, ServerInv, AccepterOK
    <3> QED BY <1>5, <3>1 DEF Accept, WheelNext
  <2>2. CASE ~(timeoutSec > 0)
    BY <1>5, <2>2 DEF Accept, insertAll, wheelVars
  <2> QED BY <2>1, <2>2
<1>6. ASSUME NEW c \in Conns, Read(c) PROVE [WheelNext]_wheelVars
  <2>1. insertAll({c} \cap Held)  BY <1>6 DEF Read
  <2>2. CASE c \in Held
    <3>1. {c} \cap Held = {c}  BY <2>2
    <3>2. started  BY <2>2, HeldStarted
    <3> QED BY <2>1, <3>1, <3>2 DEF WheelNext
  <2>3. CASE c \notin Held
    <3>1. {c} \cap Held = {}  BY <2>3
    <3> QED BY <2>1, <3>1, InsertNothing
  <2> QED BY <2>2, <2>3
<1>7. ASSUME NEW c \in Conns,
             \/ Write(c) \/ WriteInLoop(c) \/ ReadEOF(c) \/ ReadError(c)
             \/ ShutdownDone(c) \/ WriteDone(c) \/ LoopWrite(c) \/ FinishClose(c)
      PROVE  UNCHANGED wheelVars
  BY <1>7 DEF Write, WriteInLoop, ReadEOF, ReadError, ShutdownDone, WriteDone,
              LoopWrite, FinishClose
<1>8. ASSUME Tick PROVE WheelNext  BY <1>8 DEF Tick, WheelNext
<1>9. ASSUME UNCHANGED vars PROVE UNCHANGED wheelVars  BY <1>9 DEF vars
<1> QED BY <1>1, <1>2, <1>3, <1>4, <1>5, <1>6, <1>7, <1>8, <1>9 DEF Next

-----------------------------------------------------------------------------
(* The inductive step *)

\* Changing one record without touching its place in the registry.
LEMMA OneRecordOK ==
  ASSUME RecordsOK(conn), RegistryOK(conn, registry), NEW c \in Conns, NEW r,
         Follows(conn[c], r), NEW rec, rec = [conn EXCEPT ![c] = r]
  PROVE  /\ RecordsOK(rec) /\ RegistryOK(rec, registry)
         /\ NoRevival(conn, rec)
<1>1. r \in ConnRecords  BY DEF Follows, RecordOK
<1>2. /\ rec \in [Conns -> ConnRecords]
      /\ rec[c] = r /\ \A d \in Conns \ {c} : rec[d] = conn[d]
  BY <1>1 DEF RecordsOK
<1>3. \A d \in Conns : /\ rec[d].obj = conn[d].obj /\ rec[d].name = conn[d].name
                       /\ rec[d].told = conn[d].told
                       /\ rec[d].hooked => conn[d].hooked
  BY <1>2 DEF Follows
<1>4. RecordsOK(rec)  BY <1>2 DEF RecordsOK, Follows
<1>5. RegistryOK(rec, registry)
  <2>1. \A n \in Names : registry[n] # NoConn => rec[registry[n]].name = n
    BY <1>3 DEF RegistryOK
  <2> QED BY <1>3, <2>1 DEF RegistryOK
<1>6. NoRevival(conn, rec)  BY <1>3 DEF NoRevival
<1> QED BY <1>4, <1>5, <1>6

\* A step that leaves the wheel and the accepter's listening alone keeps the
\* invariant if its records and registry agree and nothing comes alive.
LEMMA QuietStep ==
  ASSUME ServerInv, RecordsOK(conn'), RegistryOK(conn', registry'),
         NoRevival(conn, conn'), UNCHANGED wheelVars,
         accepter' = accepter \/ accepter' \in {"closing", "closed"}
  PROVE  ServerInv'
<1>1. UNCHANGED <<timeoutSec, wheel, started, age>> /\ Held' = Held
  BY DEF wheelVars, Held, HeldIn
<1>2. AccepterOK'  BY <1>1 DEF ServerInv, AccepterOK, NoRevival
<1>3. HeartbeatWatches'  BY <1>1 DEF ServerInv, HeartbeatWatches, NoRevival
<1> QED BY <1>2, <1>3 DEF ServerInv

\* Closing names, after a change of records that leaves objects as they are.
LEMMA QuietClose ==
  ASSUME ServerInv, NEW rec, RecordsOK(rec), RegistryOK(rec, registry),
         NoRevival(conn, rec), NEW ns \in SUBSET Names, closeConnections(rec, ns),
         UNCHANGED wheelVars,
         accepter' = accepter \/ accepter' \in {"closing", "closed"}
  PROVE  ServerInv'
<1>1. /\ RecordsOK(conn') /\ RegistryOK(conn', registry')
      /\ NoRevival(rec, conn')
  BY CloseKeepsOK
<1>2. NoRevival(conn, conn')  BY <1>1 DEF NoRevival
<1> QED BY <1>1, <1>2, QuietStep

\* The close callback destroys the object found under the name, whichever it is.
LEMMA FinishCloseKeeps ==
  ASSUME ServerInv, NEW c \in Conns, FinishClose(c) PROVE ServerInv'
<1> DEFINE n == conn[c].name
           d == registry[n]
           rec == [conn EXCEPT ![c].uv = "closed"]
<1>1. /\ RecordsOK(conn) /\ RegistryOK(conn, registry) /\ RecordOK(conn[c])
      /\ n \in Names /\ d \in Conns \cup {NoConn}
  BY DEF ServerInv, RecordsOK, ConnRecords, RegistryOK
<1>2. /\ conn[c].uv = "closing"
      /\ conn' = IF d = NoConn THEN rec ELSE [rec EXCEPT ![d] = Completed(@)]
      /\ registry' = [registry EXCEPT ![n] = NoConn]
      /\ UNCHANGED wheelVars /\ accepter' = accepter
  BY DEF FinishClose
<1>3. /\ RecordsOK(rec) /\ RegistryOK(rec, registry)
      /\ NoRevival(conn, rec)
  <2> DEFINE r == [conn[c] EXCEPT !.uv = "closed"]
  <2>1. Follows(conn[c], r)  BY <1>1, <1>2 DEF Follows, RecordOK, ConnRecords
  <2>2. rec = [conn EXCEPT ![c] = r]  BY <1>1 DEF RecordsOK
  <2> HIDE DEF r, rec
  <2> QED BY <1>1, <2>1, <2>2, OneRecordOK
<1>4. rec[c].name = n  BY <1>1 DEF RecordsOK, RecordOK, ConnRecords
<1> HIDE DEF n, d, rec
<1>5. CASE d = NoConn
  <2>1. conn' = rec /\ registry' = registry
    BY <1>1, <1>2, <1>5 DEF d, RegistryOK
  <2> QED BY <1>2, <1>3, <2>1, QuietStep
<1>6. CASE d # NoConn
  <2>1. /\ d \in Conns /\ rec[d].name = n /\ registry[n] = d
        /\ rec[d].obj = "live" /\ rec[d].told = 0 /\ RecordOK(rec[d])
    BY <1>1, <1>3, <1>6 DEF d, RegistryOK, RecordsOK
  <2>2. /\ RecordOK(Completed(rec[d]))
        /\ Completed(rec[d]).name = n /\ Completed(rec[d]).obj = "dead"
        /\ Completed(rec[d]).told = 1 /\ (Completed(rec[d]).hooked <=> rec[d].hooked)
    BY <2>1, CompletedOK
  <2>3. conn' = [rec EXCEPT ![d] = Completed(rec[d])]  BY <1>2, <1>6
  <2>4. Completed(rec[d]) \in ConnRecords /\ rec \in [Conns -> ConnRecords]
    BY <1>3, <2>2 DEF RecordOK, RecordsOK
  <2>5. /\ conn' \in [Conns -> ConnRecords] /\ conn'[d] = Completed(rec[d])
        /\ \A e \in Conns \ {d} : conn'[e] = rec[e]
    BY <2>1, <2>3, <2>4
  <2>6. RecordsOK(conn')  BY <1>3, <2>2, <2>5 DEF RecordsOK
  <2>7. /\ registry' \in [Names -> Conns \cup {NoConn}] /\ registry'[n] = NoConn
        /\ \A m \in Names \ {n} : registry'[m] = registry[m]
    BY <1>1, <1>2 DEF RegistryOK
  <2>8. RegistryOK(conn', registry')
    <3>1. ASSUME NEW m \in Names, registry'[m] # NoConn
          PROVE  conn'[registry'[m]].name = m
      <4>1. m # n /\ registry'[m] = registry[m] /\ registry[m] \in Conns
        BY <2>7, <3>1
      <4>2. rec[registry[m]].name = m  BY <1>3, <3>1, <4>1 DEF RegistryOK
      <4> QED BY <2>1, <2>5, <4>1, <4>2
    <3>2. ASSUME NEW e \in Conns
          PROVE  /\ conn'[e].obj = "live" <=> registry'[conn'[e].name] = e
                 /\ conn'[e].told = IF conn'[e].obj = "dead" THEN 1 ELSE 0
      <4>1. CASE e = d
        BY <2>2, <2>5, <2>7, <4>1
      <4>2. CASE e # d
        <5>1. conn'[e] = rec[e] /\ rec[e].name \in Names
          BY <2>5, <4>2, <2>4 DEF ConnRecords
        <5>2. registry'[rec[e].name] = e <=> registry[rec[e].name] = e
          BY <2>1, <2>7, <4>2, <5>1
        <5> QED BY <1>3, <5>1, <5>2 DEF RegistryOK
      <4> QED BY <4>1, <4>2
    <3> QED BY <2>7, <3>1, <3>2 DEF RegistryOK
  <2>9. NoRevival(conn, conn')
    <3>1. ASSUME NEW e \in Conns
          PROVE  /\ conn'[e].obj = "live" => rec[e].obj = "live"
                 /\ conn'[e].hooked => rec[e].hooked
      BY <2>1, <2>2, <2>5
    <3> QED BY <1>3, <3>1 DEF NoRevival
  <2> QED BY <1>2, <2>6, <2>8, <2>9, QuietStep
<1> QED BY <1>5, <1>6

\* Accepting a connection registers it and puts it in the current slot.
LEMMA AcceptKeeps ==
  ASSUME ServerInv, WheelInv, WheelInv', NEW c \in Conns, NEW n \in Names, Accept(c, n)
  PROVE  ServerInv'
<1>0. NotLate'  BY HeldInTime, PTL
<1>1. /\ RecordsOK(conn) /\ RegistryOK(conn, registry) /\ AccepterOK
      /\ HeartbeatWatches
  BY DEF ServerInv
<1>2. /\ accepter = "listening" /\ accepter' = accepter
      /\ conn[c].obj = "none" /\ registry[n] = NoConn
      /\ conn' = [conn EXCEPT ![c] = NewConnection(n)]
      /\ registry' = [registry EXCEPT ![n] = c]
      /\ insertAll({c})
  BY DEF Accept, Incoming
<1>3. /\ RecordOK(NewConnection(n)) /\ NewConnection(n) \in ConnRecords
      /\ NewConnection(n).obj = "live" /\ NewConnection(n).name = n
      /\ NewConnection(n).told = 0
  <2>1. NoConnection(n) \in ConnRecords  BY DEF NoConnection, ConnRecords
  <2>2. NewConnection(n) \in ConnRecords  BY <2>1 DEF NewConnection, ConnRecords
  <2>3. /\ NewConnection(n).obj = "live" /\ NewConnection(n).uv = "open"
        /\ NewConnection(n).hooked /\ NewConnection(n).name = n
        /\ NewConnection(n).told = 0 /\ NewConnection(n).asked = 0
        /\ NewConnection(n).answered = 0 /\ NewConnection(n).inflight = 0
        /\ NewConnection(n).queued = 0
    BY DEF NewConnection, NoConnection
  <2> QED BY <2>2, <2>3 DEF RecordOK
<1>4. /\ conn' \in [Conns -> ConnRecords] /\ conn'[c] = NewConnection(n)
      /\ \A d \in Conns \ {c} : conn'[d] = conn[d]
  BY <1>1, <1>2, <1>3 DEF RecordsOK
<1>5. /\ registry' \in [Names -> Conns \cup {NoConn}] /\ registry'[n] = c
      /\ \A m \in Names \ {n} : registry'[m] = registry[m]
  BY <1>1, <1>2 DEF RegistryOK
<1>6. RecordsOK(conn')  BY <1>1, <1>3, <1>4 DEF RecordsOK
<1>7. RegistryOK(conn', registry')
  <2>1. ASSUME NEW m \in Names \ {n} PROVE registry[m] # c
    BY <1>1, <1>2 DEF RegistryOK
  <2>2. ASSUME NEW m \in Names, registry'[m] # NoConn
        PROVE  conn'[registry'[m]].name = m
    <3>1. CASE m = n  BY <1>3, <1>4, <1>5, <3>1
    <3>2. CASE m # n
      <4>1. registry'[m] = registry[m] /\ registry[m] \in Conns \ {c}
        BY <1>5, <2>1, <2>2, <3>2
      <4> QED BY <1>1, <1>4, <2>2, <4>1 DEF RegistryOK
    <3> QED BY <3>1, <3>2
  <2>3. ASSUME NEW d \in Conns
        PROVE  /\ conn'[d].obj = "live" <=> registry'[conn'[d].name] = d
               /\ conn'[d].told = IF conn'[d].obj = "dead" THEN 1 ELSE 0
    <3>1. CASE d = c  BY <1>3, <1>4, <1>5, <3>1
    <3>2. CASE d # c
      <4>1. conn'[d] = conn[d] /\ conn[d].name \in Names
        BY <1>1, <1>4, <3>2 DEF RecordsOK, ConnRecords
      <4>2. registry'[conn[d].name] = d <=> registry[conn[d].name] = d
        BY <1>2, <1>5, <3>2, <4>1
      <4> QED BY <1>1, <4>1, <4>2 DEF RegistryOK
    <3> QED BY <3>1, <3>2
  <2> QED BY <1>5, <2>2, <2>3 DEF RegistryOK
<1>8. AccepterOK'
  BY <1>1, <1>2 DEF AccepterOK, insertAll
<1>9. HeartbeatWatches'
  <2> SUFFICES ASSUME NEW d \in Conns, conn'[d].obj = "live", conn'[d].hooked,
                      timeoutSec' > 0
               PROVE  d \in Held'
    BY <1>0 DEF HeartbeatWatches, NotLate
  <2>1. /\ timeoutSec > 0 /\ index \in DOMAIN wheel
        /\ wheel' = [wheel EXCEPT ![index] = @ \cup {c}]
    BY <1>1, <1>2 DEF insertAll, AccepterOK, WheelInv, WheelTypeOK
  <2>2. CASE d = c
    <3>1. index \in DOMAIN wheel' /\ c \in wheel'[index]  BY <2>1
    <3> QED BY <2>2, <3>1 DEF Held, HeldIn
  <2>3. CASE d # c
    <3>1. d \in Held  BY <1>1, <1>4, <2>1, <2>3 DEF HeartbeatWatches
    <3>2. PICK s \in DOMAIN wheel : d \in wheel[s]  BY <3>1 DEF Held, HeldIn
    <3>3. s \in DOMAIN wheel' /\ d \in wheel'[s]  BY <2>1, <3>2
    <3> QED BY <3>3 DEF Held, HeldIn
  <2> QED BY <2>2, <2>3
<1> QED BY <1>6, <1>7, <1>8, <1>9 DEF ServerInv

\* Closing names while the wheel moves: nothing that stays hooked may drop out.
LEMMA WatchedClose ==
  ASSUME ServerInv, WheelInv', NEW ns \in SUBSET Names, closeConnections(conn, ns),
         accepter' = accepter, timeoutSec' = timeoutSec, started' = started,
         \A c \in Held : conn[c].obj = "live" /\ conn[c].hooked /\ c \notin Held'
                           => c \in Targets(ns)
  PROVE  ServerInv'
<1>0. NotLate'  BY HeldInTime, PTL
<1>1. /\ RecordsOK(conn) /\ RegistryOK(conn, registry) /\ AccepterOK
      /\ HeartbeatWatches
  BY DEF ServerInv
<1>2. /\ RecordsOK(conn') /\ RegistryOK(conn', registry') /\ NoRevival(conn, conn')
      /\ \A c \in Targets(ns) : ~conn'[c].hooked
  BY <1>1, CloseKeepsOK
<1>3. AccepterOK'  BY <1>1, <1>2 DEF AccepterOK, NoRevival
<1>4. HeartbeatWatches'
  <2> SUFFICES ASSUME NEW c \in Conns, conn'[c].obj = "live", conn'[c].hooked,
                      timeoutSec' > 0
               PROVE  c \in Held'
    BY <1>0 DEF HeartbeatWatches, NotLate
  <2>1. conn[c].obj = "live" /\ conn[c].hooked  BY <1>2 DEF NoRevival
  <2>2. c \in Held  BY <1>1, <2>1 DEF HeartbeatWatches
  <2> QED BY <1>2, <2>1, <2>2
<1> QED BY <1>2, <1>3, <1>4 DEF ServerInv

\* Data renews the heartbeat and may make the application close the connection.
LEMMA ReadKeeps ==
  ASSUME ServerInv, WheelInv, WheelInv', NEW c \in Conns, Read(c) PROVE ServerInv'
<1>1. PICK ns \in Reactions(c) : closeConnections(conn, ns)  BY DEF Read
<1>2. ns \in SUBSET Names  BY <1>1, NamesClosed DEF ServerInv
<1>3. /\ accepter' = accepter /\ timeoutSec' = timeoutSec /\ started' = started
      /\ insertAll({c} \cap Held)
  BY DEF Read, insertAll
<1>4. ASSUME NEW d \in Held PROVE d \in Held'
  <2>1. PICK s \in DOMAIN wheel : d \in wheel[s]  BY <1>4 DEF Held, HeldIn
  <2>2. s \in DOMAIN wheel' /\ d \in wheel'[s]  BY <1>3, <2>1 DEF insertAll
  <2> QED BY <2>2 DEF Held, HeldIn
<1> QED BY <1>1, <1>2, <1>3, <1>4, WatchedClose

\* A tick closes every open connection it drops from the wheel.
LEMMA TickKeeps ==
  ASSUME ServerInv, WheelInv, WheelInv', Tick PROVE ServerInv'
<1> DEFINE cs == Expired(NextIndex)
<1>1. /\ wheelCallback /\ accepter' = accepter
      /\ closeConnections(conn, OnSocketClose(cs))
  BY DEF Tick
<1>2. timeoutSec' = timeoutSec /\ started' = started  BY <1>1, TickEffect
<1>3. cs \in SUBSET Conns  BY HeldStarted DEF Expired
<1>4. OnSocketClose(cs) \in SUBSET Names  BY <1>3, NamesClosed DEF ServerInv
<1>5. ASSUME NEW c \in Held, conn[c].obj = "live", conn[c].hooked, c \notin Held'
      PROVE  c \in Targets(OnSocketClose(cs))
  <2>1. Held' = HeldIn(Cleared(NextIndex))
    <3>1. wheel' = Cleared(NextIndex)  BY <1>1, TickEffect DEF wheelCallback
    <3> QED BY <3>1 DEF Held, HeldIn
  <2>2. c \in cs  BY <1>5, <2>1 DEF Expired
  <2>3. conn[c].name \in OnSocketClose(cs)  BY <1>5, <2>2 DEF OnSocketClose
  <2>4. registry[conn[c].name] = c /\ c \in Conns
    BY <1>3, <1>5, <2>2 DEF ServerInv, RegistryOK
  <2> QED BY <2>3, <2>4 DEF Targets
<1> HIDE DEF cs
<1> QED BY <1>1, <1>2, <1>4, <1>5, WatchedClose

\* What the other callbacks of a connection do.
LEMMA ConnectionKeeps ==
  ASSUME ServerInv, NEW c \in Conns,
         \/ Write(c) \/ WriteInLoop(c) \/ ReadEOF(c) \/ ReadError(c)
         \/ ShutdownDone(c) \/ WriteDone(c) \/ LoopWrite(c)
  PROVE  ServerInv'
<1>1. /\ RecordsOK(conn) /\ RegistryOK(conn, registry) /\ RecordOK(conn[c])
      /\ conn[c] \in ConnRecords /\ conn \in [Conns -> ConnRecords]
  BY DEF ServerInv, RecordsOK
<1>2. OnSocketClose({c}) \in SUBSET Names  BY <1>1, NamesClosed
\* one record changes, and nothing else does
<1>3. ASSUME NEW r, Follows(conn[c], r), conn' = [conn EXCEPT ![c] = r],
             UNCHANGED <<wheelVars, serverVars>>
      PROVE  ServerInv'
  <2>1. RecordsOK(conn') /\ RegistryOK(conn', registry) /\ NoRevival(conn, conn')
    BY <1>1, <1>3, OneRecordOK
  <2> QED BY <1>3, <2>1, QuietStep DEF serverVars
\* one record changes and then names are closed
<1>4. ASSUME NEW r, Follows(conn[c], r), NEW rec, rec = [conn EXCEPT ![c] = r],
             NEW ns \in SUBSET Names, closeConnections(rec, ns),
             UNCHANGED <<wheelVars, accepter>>
      PROVE  ServerInv'
  <2>1. RecordsOK(rec) /\ RegistryOK(rec, registry) /\ NoRevival(conn, rec)
    BY <1>1, <1>4, OneRecordOK
  <2> QED BY <1>4, <2>1, QuietClose
<1>5. CASE Write(c)
  <2> DEFINE q == [conn[c] EXCEPT !.asked = @ + 1]
  <2>1. /\ q \in ConnRecords /\ q.asked = q.answered + q.inflight + q.queued + 1
        /\ (q.hooked <=> q.uv = "open") /\ q.name = conn[c].name
        /\ q.obj = conn[c].obj /\ q.told = conn[c].told
        /\ q.hooked => conn[c].hooked
    BY <1>1, <1>5 DEF Write, RecordOK, ConnRecords
  <2>2. PICK r \in WriteOutcomes(q) : conn' = [conn EXCEPT ![c] = r]
    BY <1>5 DEF Write
  <2> HIDE DEF q
  <2>3. Follows(q, r)  BY <2>1, <2>2, WriteOK
  <2>4. Follows(conn[c], r)  BY <2>1, <2>3 DEF Follows
  <2> QED BY <1>3, <1>5, <2>2, <2>4 DEF Write
<1>6. CASE WriteInLoop(c)
  <2> DEFINE r == [conn[c] EXCEPT !.asked = @ + 1, !.queued = @ + 1]
  <2>1. Follows(conn[c], r)
    BY <1>1, <1>6 DEF WriteInLoop, Follows, RecordOK, ConnRecords
  <2>2. conn' = [conn EXCEPT ![c] = r]  BY <1>1, <1>6 DEF WriteInLoop
  <2> HIDE DEF r
  <2> QED BY <1>3, <1>6, <2>1, <2>2 DEF WriteInLoop
<1>7. CASE LoopWrite(c)
  <2> DEFINE q == [conn[c] EXCEPT !.queued = @ - 1]
  <2>1. /\ q \in ConnRecords /\ q.asked = q.answered + q.inflight + q.queued + 1
        /\ (q.hooked <=> q.uv = "open") /\ q.name = conn[c].name
        /\ q.obj = conn[c].obj /\ q.told = conn[c].told
        /\ (q.hooked => conn[c].hooked)
    BY <1>1, <1>7 DEF LoopWrite, RecordOK, ConnRecords
  <2>2. PICK r \in LoopWriteOutcomes(conn[c]) : conn' = [conn EXCEPT ![c] = r]
    BY <1>7 DEF LoopWrite
  <2>3. r \in WriteOutcomes(q)  BY <2>2 DEF LoopWriteOutcomes, WriteOutcomes
  <2> HIDE DEF q
  <2>4. Follows(q, r)  BY <2>1, <2>3, WriteOK
  <2>5. Follows(conn[c], r)  BY <2>1, <2>4 DEF Follows
  <2> QED BY <1>3, <1>7, <2>2, <2>5 DEF LoopWrite
<1>8. CASE ReadEOF(c)
  <2>1. conn' = [conn EXCEPT ![c] = ReadEnded(conn[c])]  BY <1>8 DEF ReadEOF
  <2> QED BY <1>1, <1>3, <1>8, <2>1, CallbacksOK DEF ReadEOF
<1>9. CASE ReadError(c)
  <2> DEFINE rec == [conn EXCEPT ![c] = ReadFailed(@)]
  <2>1. rec = [conn EXCEPT ![c] = ReadFailed(conn[c])]  OBVIOUS
  <2>2. closeConnections(rec, OnSocketClose({c}))  BY <1>9 DEF ReadError
  <2> HIDE DEF rec
  <2> QED BY <1>1, <1>2, <1>4, <1>9, <2>1, <2>2, CallbacksOK DEF ReadError
<1>10. CASE ShutdownDone(c)
  <2> DEFINE r == [conn[c] EXCEPT !.shut = FALSE]
             rec == [conn EXCEPT ![c].shut = FALSE]
  <2>1. rec = [conn EXCEPT ![c] = r]  BY <1>1
  <2>2. Follows(conn[c], r)  BY <1>1, CallbacksOK
  <2>3. closeConnections(rec, OnSocketClose({c}))  BY <1>10 DEF ShutdownDone
  <2> HIDE DEF r, rec
  <2> QED BY <1>2, <1>4, <1>10, <2>1, <2>2, <2>3 DEF ShutdownDone
<1>11. CASE WriteDone(c)
  <2> DEFINE rec == [conn EXCEPT ![c] = WriteDoneRec(@)]
  <2>1. rec = [conn EXCEPT ![c] = WriteDoneRec(conn[c])]  OBVIOUS
  <2>2. Follows(conn[c], WriteDoneRec(conn[c]))
    BY <1>1, <1>11, CallbacksOK DEF WriteDone
  <2>3. PICK ns \in Reactions(c) : closeConnections(rec, ns)  BY <1>11 DEF WriteDone
  <2>4. ns \in SUBSET Names  BY <1>1, <2>3, NamesClosed
  <2> HIDE DEF rec
  <2> QED BY <1>4, <1>11, <2>1, <2>2, <2>3, <2>4 DEF WriteDone
<1> QED BY <1>5, <1>6, <1>7, <1>8, <1>9, <1>10, <1>11

\* Every step of the server keeps its invariant and the wheel's.
LEMMA ServerStepPreserves ==
  ASSUME ServerInv, WheelInv, [Next]_vars PROVE ServerInv' /\ WheelInv'
<1>1. WheelInv'
  <2>1. [WheelNext]_wheelVars  BY DrivesWheel
  <2> QED BY <2>1, WheelStepPreserves
<1>2. /\ RecordsOK(conn) /\ RegistryOK(conn, registry) /\ NoRevival(conn, conn)
  BY DEF ServerInv, NoRevival
<1>3. ASSUME NEW n \in Timeouts, SetTimeout(n) PROVE ServerInv'
  <2>1. /\ accepter = "none" /\ UNCHANGED <<conn, registry, accepter>>
    BY <1>3 DEF SetTimeout, serverVars
  <2>2. AccepterOK' /\ HeartbeatWatches'
    BY <2>1 DEF ServerInv, AccepterOK, HeartbeatWatches
  <2> QED BY <1>2, <2>1, <2>2 DEF ServerInv
<1>4. ASSUME BindAndListen PROVE ServerInv'
  <2>1. /\ UNCHANGED <<conn, registry>> /\ accepter' \in {"bound", "listening"}
        /\ accepter' = "listening" => start
        /\ start \/ UNCHANGED wheelVars
    BY <1>4 DEF BindAndListen
  <2>2. /\ timeoutSec' = timeoutSec /\ age' = age
        /\ accepter' = "listening" /\ timeoutSec > 0 => started'
    BY <2>1 DEF start, wheelVars
  <2>3. AccepterOK'  BY <2>1, <2>2 DEF AccepterOK
  <2>4. ASSUME NEW c \in Held PROVE c \in Held'
    <3>1. PICK s \in DOMAIN wheel : c \in wheel[s]  BY <2>4 DEF Held, HeldIn
    <3>2. started  BY <3>1 DEF WheelInv, WheelTypeOK
    <3>3. s \in DOMAIN wheel' /\ c \in wheel'[s]
      BY <2>1, <3>1, <3>2 DEF start, wheelVars, WheelInv, WheelTypeOK
    <3> QED BY <3>3 DEF Held, HeldIn
  <2>5. HeartbeatWatches'
    BY <2>1, <2>2, <2>4 DEF ServerInv, HeartbeatWatches
  <2> QED BY <1>2, <2>1, <2>3, <2>5 DEF ServerInv
<1>5. ASSUME Close \/ AccepterClosed PROVE ServerInv'
  <2>1. /\ UNCHANGED wheelVars
        /\ accepter' = accepter \/ accepter' \in {"closing", "closed"}
        /\ \/ UNCHANGED <<conn, registry>>
           \/ closeConnections(conn, OnSocketClose(Registered))
    BY <1>5 DEF Close, AccepterClosed, FinishServerClose
  <2>2. OnSocketClose(Registered) \in SUBSET Names
    BY <1>2, NamesClosed DEF Registered, RegistryOK
  <2>3. CASE UNCHANGED <<conn, registry>>  BY <1>2, <2>1, <2>3, QuietStep
  <2>4. CASE closeConnections(conn, OnSocketClose(Registered))
    BY <1>2, <2>1, <2>2, <2>4, QuietClose
  <2> QED BY <2>1, <2>3, <2>4
<1>6. ASSUME NEW n \in Names, CloseConnection(n) PROVE ServerInv'
  <2>1. closeConnections(conn, {n}) /\ UNCHANGED <<wheelVars, accepter>>
    BY <1>6 DEF CloseConnection
  <2> QED BY <1>2, <2>1, QuietClose
<1>7. ASSUME UNCHANGED vars PROVE ServerInv'
  BY <1>2, <1>7, QuietStep DEF vars, serverVars
<1> QED
  BY <1>1, <1>3, <1>4, <1>5, <1>6, <1>7, AcceptKeeps, ReadKeeps, TickKeeps,
     ConnectionKeeps, FinishCloseKeeps
  DEF Next

\* A server without accepter, connections or registered names.
LEMMA ServerInitOK == ASSUME Init PROVE ServerInv /\ WheelInv
<1> DEFINE n0 == CHOOSE n \in Names : TRUE
<1>1. n0 \in Names  OBVIOUS
<1>2. /\ conn = [c \in Conns |-> NoConnection(n0)]
      /\ registry = [n \in Names |-> NoConn] /\ accepter = "none"
  BY DEF Init
<1> HIDE DEF n0
<1>3. NoConnection(n0) \in ConnRecords  BY <1>1 DEF NoConnection, ConnRecords
<1>4. \A c \in Conns : /\ RecordOK(conn[c]) /\ conn[c].obj = "none"
                       /\ conn[c].told = 0
  <2>1. /\ NoConnection(n0).obj = "none" /\ NoConnection(n0).told = 0
        /\ ~NoConnection(n0).hooked /\ NoConnection(n0).uv = "none"
        /\ NoConnection(n0).asked = 0 /\ NoConnection(n0).answered = 0
        /\ NoConnection(n0).inflight = 0 /\ NoConnection(n0).queued = 0
    BY DEF NoConnection
  <2>2. 0 = 0 + 0 + 0  OBVIOUS
  <2>3. RecordOK(NoConnection(n0))  BY <1>3, <2>1, <2>2 DEF RecordOK
  <2> QED BY <1>2, <2>1, <2>3
<1>5. RecordsOK(conn)  BY <1>2, <1>3, <1>4 DEF RecordsOK
<1>6. RegistryOK(conn, registry)
  <2>1. \A c \in Conns : conn[c].name \in Names  BY <1>5 DEF RecordsOK, ConnRecords
  <2>2. \A c \in Conns : registry[conn[c].name] # c  BY <1>2, <2>1
  <2> QED BY <1>2, <1>4, <2>2 DEF RegistryOK
<1>7. AccepterOK /\ HeartbeatWatches
  BY <1>2, <1>4 DEF AccepterOK, HeartbeatWatches
<1>8. WheelInv  BY WheelInitOK DEF Init
<1> QED BY <1>5, <1>6, <1>7, <1>8 DEF ServerInv

-----------------------------------------------------------------------------
(* Theorems *)

\* The inductive invariant of the server, together with the wheel's, whether or
\* not the application closes names twice.
THEOREM ServerInvariant == Spec => [](ServerInv /\ WheelInv)
BY ServerInitOK, ServerStepPreserves, PTL DEF Spec

\* Every record, the registry, the accepter and the wheel keep their types; in
\* particular wheel_ is never indexed outside its size.
THEOREM ServerTypeOK == Spec => []TypeOK
<1>1. ServerInv /\ WheelInv => TypeOK
  BY DEF ServerInv, WheelInv, TypeOK, RecordsOK, RegistryOK, AccepterOK
<1> QED BY <1>1, ServerInvariant, PTL

\* No write is lost or answered twice: each is in libuv's queue, in the event
\* loop's, or answered, through every close, cancellation and destruction.
THEOREM ServerWritesAccounted == Spec => []WritesAccounted
<1>1. ServerInv => WritesAccounted
  BY DEF ServerInv, RecordsOK, RecordOK, WritesAccounted
<1> QED BY <1>1, ServerInvariant, PTL

\* connnections_ holds exactly the live connections under their own names, and
\* the application hears of the end of each once, even with repeated closes.
THEOREM ServerRegistryExact == Spec => []RegistryExact
<1>1. ServerInv => RegistryExact  BY DEF ServerInv, RegistryOK, RegistryExact
<1> QED BY <1>1, ServerInvariant, PTL

\* With a heartbeat timeout, no open connection ever falls out of the wheel.
THEOREM ServerHeartbeatWatches == Spec => []HeartbeatWatches
<1>1. ServerInv => HeartbeatWatches  BY DEF ServerInv
<1> QED BY <1>1, ServerInvariant, PTL

\* The server implements the wheel's own specification: it never inserts into a
\* wheel that does not run and never changes the timeout of one that does.
THEOREM ServerDrivesWheel == Spec => WheelSpec
<1>1. Init => WheelInit  BY DEF Init
<1> QED BY <1>1, DrivesWheel, ServerInvariant, PTL DEF Spec, WheelSpec

\* What the wheel promises therefore holds of the server's heartbeats.
THEOREM ServerAges == Spec => []AgeMatchesSlot /\ []NotLate /\ NotEarly
BY ServerDrivesWheel, WheelAgeMatchesSlot, WheelNotLate, WheelNotEarly, PTL

\* A tick closes a connection only after timeoutSec_ ticks without data.
THEOREM ServerHeartbeatNotEarly == Spec => HeartbeatNotEarly
<1> DEFINE OnTime(c) ==
      conn[c].uv = "open" /\ conn'[c].uv = "closing" => age[c] + 1 = timeoutSec
<1>1. ASSUME ServerInv, WheelInv, Next
      PROVE  Tick => \A c \in Conns : OnTime(c)
  <2> SUFFICES ASSUME Tick, NEW c \in Conns, conn[c].uv = "open",
                      conn'[c].uv = "closing"
               PROVE  age[c] + 1 = timeoutSec
    OBVIOUS
  <2> DEFINE cs == Expired(NextIndex)
  <2>1. c \in Targets(OnSocketClose(cs))
    BY DEF Tick, closeConnections
  <2>2. PICK e \in cs : conn[e].hooked /\ registry[conn[e].name] = c
    BY <2>1 DEF Targets, OnSocketClose
  <2>3. e \in Held /\ e \notin HeldIn(Cleared(NextIndex)) /\ conn[e].obj = "live"
    BY <2>2 DEF Expired
  <2>4. e = c  BY <1>1, <2>2, <2>3, HeldStarted DEF ServerInv, RegistryOK
  <2>5. [WheelNext]_wheelVars /\ wheelCallback  BY DEF Tick, WheelNext
  <2>6. c \notin Held'
    <3>1. wheel' = Cleared(NextIndex)  BY <1>1, <2>5, TickEffect DEF wheelCallback
    <3> QED BY <2>3, <2>4, <3>1 DEF Held, HeldIn
  <2> QED BY <1>1, <2>3, <2>4, <2>5, <2>6, DropOnTime
<1>2. ServerInv /\ WheelInv /\ [Next]_vars
        => [Tick => \A c \in Conns : OnTime(c)]_vars
  BY <1>1
<1> QED BY <1>2, ServerInvariant, PTL DEF Spec, HeartbeatNotEarly

-----------------------------------------------------------------------------
(* Lifetimes, when the application waits for a close to end *)

\* An open handle belongs to a live object, which is registered under its name.
LEMMA OpenRegistered ==
  ASSUME ServerInv, AllLive(conn), NEW c \in Conns, conn[c].uv \in {"open", "closing"}
  PROVE  conn[c].obj = "live" /\ registry[conn[c].name] = c
<1>1. conn[c].obj \in {"none", "live", "dead"}
  BY DEF ServerInv, RecordsOK, ConnRecords
<1>2. conn[c].obj = "live"  BY <1>1 DEF AllLive, Lives
<1> QED BY <1>2 DEF ServerInv, RegistryOK

\* So every name a callback, the wheel or the application closes has an open handle.
LEMMA TargetsOpen ==
  ASSUME ServerInv, AllLive(conn), ~Reclose
  PROVE  /\ \A cs \in SUBSET Conns : \A c \in Targets(OnSocketClose(cs)) :
               conn[c].uv = "open"
         /\ \A n \in Names : CanClose(n) => \A c \in Targets({n}) : conn[c].uv = "open"
         /\ \A d \in Conns : \A ns \in Reactions(d) :
               \A c \in Targets(ns) : conn[c].uv = "open"
<1>1. ASSUME NEW cs \in SUBSET Conns, NEW c \in Targets(OnSocketClose(cs))
      PROVE  conn[c].uv = "open"
  <2>1. PICK e \in cs : conn[e].hooked /\ registry[conn[e].name] = c
    BY <1>1 DEF Targets, OnSocketClose
  <2>2. e \in Conns /\ conn[e].uv = "open"
    BY <2>1 DEF ServerInv, RecordsOK, RecordOK
  <2> QED BY <2>1, <2>2, OpenRegistered
<1>2. ASSUME NEW n \in Names, CanClose(n), NEW c \in Targets({n})
      PROVE  conn[c].uv = "open"
  BY <1>2 DEF CanClose, Targets
<1>3. ASSUME NEW d \in Conns, NEW ns \in Reactions(d), NEW c \in Targets(ns)
      PROVE  conn[c].uv = "open"
  <2>1. conn[d].name \in Names  BY DEF ServerInv, RecordsOK, ConnRecords
  <2>2. ns = {conn[d].name} /\ CanClose(conn[d].name)
    BY <1>3 DEF Reactions, Targets
  <2> QED BY <1>2, <1>3, <2>1, <2>2
<1> QED BY <1>1, <1>2, <1>3

\* Closing open handles destroys nothing yet.
LEMMA CloseKeepsLives ==
  ASSUME NEW rec, RecordsOK(rec), AllLive(rec), NEW ns, closeConnections(rec, ns),
         \A c \in Targets(ns) : rec[c].uv = "open"
  PROVE  AllLive(conn')
<1> SUFFICES ASSUME NEW c \in Conns PROVE Lives(conn'[c])
  BY DEF AllLive
<1>1. conn'[c] = IF c \in Targets(ns) THEN Closing(rec[c]) ELSE rec[c]
  BY DEF closeConnections
<1>2. Lives(rec[c]) /\ rec[c] \in ConnRecords  BY DEF AllLive, RecordsOK
<1>3. CASE c \in Targets(ns)
  <2>1. rec[c].uv = "open" /\ rec[c].obj = "live"
    BY <1>2, <1>3 DEF Lives, ConnRecords
  <2> QED BY <1>1, <1>2, <1>3, <2>1 DEF Lives, Closing, ConnRecords
<1>4. CASE c \notin Targets(ns)  BY <1>1, <1>2, <1>4
<1> QED BY <1>3, <1>4

\* Changing one record.
LEMMA OneLives ==
  ASSUME RecordsOK(conn), AllLive(conn), NEW c \in Conns, NEW r, Lives(r),
         NEW rec, rec = [conn EXCEPT ![c] = r]
  PROVE  AllLive(rec)
  BY DEF AllLive, RecordsOK

\* The steps of a connection.
LEMMA ConnectionKeepsLives ==
  ASSUME ServerInv, AllLive(conn), ~Reclose, NEW c \in Conns,
         \/ Write(c) \/ WriteInLoop(c) \/ ReadEOF(c) \/ ReadError(c)
         \/ ShutdownDone(c) \/ WriteDone(c) \/ LoopWrite(c) \/ FinishClose(c)
  PROVE  AllLive(conn')
<1>1. /\ RecordsOK(conn) /\ RegistryOK(conn, registry) /\ RecordOK(conn[c])
      /\ conn[c] \in ConnRecords /\ conn \in [Conns -> ConnRecords]
      /\ Lives(conn[c])
  BY DEF ServerInv, RecordsOK, AllLive
<1>2. \A d \in Targets(OnSocketClose({c})) : conn[d].uv = "open"  BY TargetsOpen
\* one record changes, keeping its handle, and then open handles are closed
<1>3. ASSUME NEW r, Follows(conn[c], r), Lives(r), r.uv = conn[c].uv,
             NEW rec, rec = [conn EXCEPT ![c] = r],
             NEW ns, closeConnections(rec, ns),
             \A d \in Targets(ns) : conn[d].uv = "open"
      PROVE  AllLive(conn')
  <2>1. AllLive(rec)  BY <1>1, <1>3, OneLives
  <2>2. RecordsOK(rec)  BY <1>1, <1>3, OneRecordOK
  <2>3. \A d \in Targets(ns) : rec[d].uv = "open"  BY <1>1, <1>3
  <2> QED BY <1>3, <2>1, <2>2, <2>3, CloseKeepsLives
<1>4. CASE Write(c)
  <2>1. PICK r \in WriteOutcomes([conn[c] EXCEPT !.asked = @ + 1]) :
               conn' = [conn EXCEPT ![c] = r]
    BY <1>4 DEF Write
  <2>2. Lives(r)  BY <1>1, <1>4, <2>1 DEF Write, WriteOutcomes, Lives, ConnRecords
  <2> QED BY <1>1, <2>1, <2>2, OneLives
<1>5. CASE WriteInLoop(c)
  <2> DEFINE r == [conn[c] EXCEPT !.asked = @ + 1, !.queued = @ + 1]
  <2>1. conn' = [conn EXCEPT ![c] = r]  BY <1>1, <1>5 DEF WriteInLoop
  <2>2. Lives(r)  BY <1>1 DEF Lives, ConnRecords
  <2> HIDE DEF r
  <2> QED BY <1>1, <2>1, <2>2, OneLives
<1>6. CASE LoopWrite(c)
  <2>1. PICK r \in LoopWriteOutcomes(conn[c]) : conn' = [conn EXCEPT ![c] = r]
    BY <1>6 DEF LoopWrite
  <2>2. Lives(r)  BY <1>1, <2>1 DEF LoopWriteOutcomes, WriteOutcomes, Lives, ConnRecords
  <2> QED BY <1>1, <2>1, <2>2, OneLives
<1>7. CASE ReadEOF(c)
  <2>1. conn' = [conn EXCEPT ![c] = ReadEnded(conn[c])] /\ conn[c].uv = "open"
    BY <1>7 DEF ReadEOF
  <2>2. Lives(ReadEnded(conn[c]))  BY <1>1, <2>1 DEF ReadEnded, Lives, ConnRecords
  <2> QED BY <1>1, <2>1, <2>2, OneLives
<1>8. CASE ReadError(c)
  <2> DEFINE r == ReadFailed(conn[c])
             rec == [conn EXCEPT ![c] = ReadFailed(@)]
  <2>1. rec = [conn EXCEPT ![c] = r]  OBVIOUS
  <2>2. Lives(r) /\ r.uv = conn[c].uv  BY <1>1 DEF ReadFailed, Lives, ConnRecords
  <2>3. Follows(conn[c], r)  BY <1>1, CallbacksOK
  <2>4. closeConnections(rec, OnSocketClose({c}))  BY <1>8 DEF ReadError
  <2> HIDE DEF r, rec
  <2> QED BY <1>2, <1>3, <2>1, <2>2, <2>3, <2>4
<1>9. CASE ShutdownDone(c)
  <2> DEFINE r == [conn[c] EXCEPT !.shut = FALSE]
             rec == [conn EXCEPT ![c].shut = FALSE]
  <2>1. rec = [conn EXCEPT ![c] = r]  BY <1>1
  <2>2. Lives(r) /\ r.uv = conn[c].uv  BY <1>1 DEF Lives, ConnRecords
  <2>3. Follows(conn[c], r)  BY <1>1, CallbacksOK
  <2>4. closeConnections(rec, OnSocketClose({c}))  BY <1>9 DEF ShutdownDone
  <2> HIDE DEF r, rec
  <2> QED BY <1>2, <1>3, <2>1, <2>2, <2>3, <2>4
<1>10. CASE WriteDone(c)
  <2> DEFINE r == WriteDoneRec(conn[c])
             rec == [conn EXCEPT ![c] = WriteDoneRec(@)]
  <2>1. rec = [conn EXCEPT ![c] = r]  OBVIOUS
  <2>2. conn[c].obj = "live"
    BY <1>1, <1>10 DEF WriteDone, Lives, ConnRecords
  <2>3. Lives(r) /\ r.uv = conn[c].uv
    BY <1>1, <2>2 DEF WriteDoneRec, Lives, ConnRecords
  <2>4. Follows(conn[c], r)  BY <1>1, <1>10, CallbacksOK DEF WriteDone
  <2>5. PICK ns \in Reactions(c) : closeConnections(rec, ns)  BY <1>10 DEF WriteDone
  <2>6. \A d \in Targets(ns) : conn[d].uv = "open"  BY <2>5, TargetsOpen
  <2> HIDE DEF r, rec
  <2> QED BY <1>3, <2>1, <2>3, <2>4, <2>5, <2>6
\* the object the close callback destroys is the one whose handle has closed
<1>11. CASE FinishClose(c)
  <2> DEFINE r == Completed([conn[c] EXCEPT !.uv = "closed"])
  <2>1. conn[c].uv = "closing" /\ conn[c].inflight = 0 /\ ~conn[c].shut
    BY <1>11 DEF FinishClose
  <2>2. registry[conn[c].name] = c  BY <2>1, OpenRegistered
  <2>3. conn' = [conn EXCEPT ![c] = r]  BY <1>1, <1>11, <2>2 DEF FinishClose
  <2>4. Lives(r)  BY <1>1, <2>1 DEF Completed, Lives, ConnRecords
  <2> HIDE DEF r
  <2> QED BY <1>1, <2>3, <2>4, OneLives
<1> QED BY <1>4, <1>5, <1>6, <1>7, <1>8, <1>9, <1>10, <1>11

\* Every step keeps objects and handles in step with each other.
LEMMA LivesStep ==
  ASSUME ServerInv, WheelInv, AllLive(conn), ~Reclose, [Next]_vars
  PROVE  AllLive(conn')
<1>1. /\ RecordsOK(conn) /\ RegistryOK(conn, registry)  BY DEF ServerInv
<1>2. ASSUME conn' = conn PROVE AllLive(conn')  BY <1>2
<1>3. ASSUME NEW n \in Timeouts, SetTimeout(n) PROVE conn' = conn
  BY <1>3 DEF SetTimeout
<1>4. ASSUME BindAndListen PROVE conn' = conn  BY <1>4 DEF BindAndListen
<1>5. ASSUME Close \/ AccepterClosed PROVE AllLive(conn')
  <2>1. Registered \in SUBSET Conns  BY <1>1 DEF Registered, RegistryOK
  <2>2. conn' = conn \/ closeConnections(conn, OnSocketClose(Registered))
    BY <1>5 DEF Close, AccepterClosed, FinishServerClose
  <2> QED BY <1>1, <1>2, <2>1, <2>2, TargetsOpen, CloseKeepsLives
<1>6. ASSUME NEW n \in Names, CloseConnection(n) PROVE AllLive(conn')
  <2>1. CanClose(n) /\ closeConnections(conn, {n})  BY <1>6 DEF CloseConnection
  <2> QED BY <1>1, <2>1, TargetsOpen, CloseKeepsLives
<1>7. ASSUME NEW c \in Conns, NEW n \in Names, Accept(c, n) PROVE AllLive(conn')
  <2>1. conn' = [conn EXCEPT ![c] = NewConnection(n)]  BY <1>7 DEF Accept
  <2>2. Lives(NewConnection(n))  BY DEF NewConnection, NoConnection, Lives
  <2> QED BY <1>1, <2>1, <2>2, OneLives
<1>8. ASSUME NEW c \in Conns, Read(c) PROVE AllLive(conn')
  <2>1. PICK ns \in Reactions(c) : closeConnections(conn, ns)  BY <1>8 DEF Read
  <2> QED BY <1>1, <2>1, TargetsOpen, CloseKeepsLives
<1>9. ASSUME Tick PROVE AllLive(conn')
  <2>1. Expired(NextIndex) \in SUBSET Conns  BY HeldStarted DEF Expired
  <2>2. closeConnections(conn, OnSocketClose(Expired(NextIndex)))  BY <1>9 DEF Tick
  <2> QED BY <1>1, <2>1, <2>2, TargetsOpen, CloseKeepsLives
<1>10. ASSUME UNCHANGED vars PROVE conn' = conn  BY <1>10 DEF vars
<1> QED
  BY <1>2, <1>3, <1>4, <1>5, <1>6, <1>7, <1>8, <1>9, <1>10, ConnectionKeepsLives
  DEF Next

\* As long as the application never closes a name that is already closing, a
\* connection is destroyed only when libuv has let go of its handle and of every
\* write and shutdown request that points at it.
THEOREM ServerNoEarlyFree == ASSUME ~Reclose PROVE Spec => []NoEarlyFree
<1>1. Init => AllLive(conn)
  <2> SUFFICES ASSUME Init, NEW c \in Conns PROVE Lives(conn[c])  BY DEF AllLive
  <2>1. conn[c] = NoConnection(CHOOSE n \in Names : TRUE)  BY DEF Init
  <2> QED BY <2>1 DEF NoConnection, Lives
<1>2. ServerInv /\ WheelInv /\ AllLive(conn) /\ [Next]_vars => AllLive(conn)'
  BY LivesStep DEF AllLive
<1>3. AllLive(conn) => NoEarlyFree  BY DEF AllLive, Lives, NoEarlyFree
<1> QED BY <1>1, <1>2, <1>3, ServerInvariant, PTL DEF Spec
=============================================================================
