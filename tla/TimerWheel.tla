----------------------------- MODULE TimerWheel -----------------------------
(***************************************************************************)
(* uv::TimerWheel with the uv::Timer that drives it: one slot of shared     *)
(* pointers per second of the timeout.  insert() adds to the current slot;  *)
(* every second the wheel advances and clears the slot it arrives at, which *)
(* destroys the values no other slot still holds.                           *)
(*                                                                         *)
(* TcpServer, its only user, keeps values alive through the wheel alone.    *)
(* Calling setTimeout() after start() or insert() before it indexes wheel_  *)
(* outside its size; callers are assumed not to do either.                  *)
(***************************************************************************)
EXTENDS Naturals

CONSTANTS Values,     \* what is inserted
          Timeouts    \* the timeouts passed to setTimeout(), in seconds

ASSUME WheelAssumption == Timeouts \subseteq Nat

VARIABLES timeoutSec,   \* timeoutSec_
          index,        \* index_
          wheel,        \* wheel_: slot number -> set of values
          started,      \* Timer::started_: the one-second timer runs
          age           \* history: ticks since the last insert of a held value

wheelVars == <<timeoutSec, index, wheel, started, age>>

\* The values some slot of w holds.
HeldIn(w) == UNION {w[s] : s \in DOMAIN w}
Held == HeldIn(wheel)

WheelInit ==
    /\ timeoutSec = 0
    /\ index = 0
    /\ wheel = [s \in {} |-> {}]
    /\ started = FALSE
    /\ age = [v \in Values |-> 0]

setTimeout(seconds) ==
    /\ ~started
    /\ timeoutSec' = seconds
    /\ UNCHANGED <<index, wheel, started, age>>

\* wheel_.resize(timeoutSec_) and timer_.start(), which acts only once.
start ==
    IF timeoutSec > 0
      THEN /\ wheel' = [s \in 0..(timeoutSec - 1) |->
                          IF s \in DOMAIN wheel THEN wheel[s] ELSE {}]
           /\ started' = TRUE
           /\ UNCHANGED <<timeoutSec, index, age>>
      ELSE UNCHANGED wheelVars

InsertNext(vs) ==  \* mutant: insert() uses the slot after the current one
    /\ IF timeoutSec > 0
         THEN /\ wheel' = [wheel EXCEPT ![(index + 1) % timeoutSec] = @ \cup vs]
              /\ age' = [v \in Values |-> IF v \in vs THEN 0 ELSE age[v]]
         ELSE UNCHANGED <<wheel, age>>
    /\ UNCHANGED <<timeoutSec, index, started>>

\* insert() of every value of a set, one call after the other.
insertAll(vs) ==
    /\ IF timeoutSec > 0
         THEN /\ wheel' = [wheel EXCEPT ![index] = @ \cup vs]
              /\ age' = [v \in Values |-> IF v \in vs THEN 0 ELSE age[v]]
         ELSE UNCHANGED <<wheel, age>>
    /\ UNCHANGED <<timeoutSec, index, started>>

NextIndexLate == IF index + 1 > timeoutSec THEN 0 ELSE index + 1  \* mutant

NextIndex == IF index + 1 = timeoutSec THEN 0 ELSE index + 1

ClearedBehind(i) == [wheel EXCEPT ![index] = {}]  \* mutant: the slot it leaves

ClearedUnlessWrapped(i) ==  \* mutant: clears only when the index did not wrap
    IF i = 0 THEN wheel ELSE [wheel EXCEPT ![i] = {}]

\* The slots after the wheel advances to slot i.
Cleared(i) == [wheel EXCEPT ![i] = {}]

\* One tick of the timer.
wheelCallback ==
    /\ started
    /\ IF timeoutSec > 0
         THEN /\ index' = NextIndex
              /\ wheel' = Cleared(NextIndex)
              /\ age' = [v \in Values |-> IF v \in HeldIn(Cleared(NextIndex))
                                            THEN age[v] + 1 ELSE 0]
              /\ UNCHANGED <<timeoutSec, started>>
         ELSE UNCHANGED wheelVars

WheelNext ==
    \/ \E seconds \in Timeouts : setTimeout(seconds)
    \/ start
    \/ started /\ \E v \in Values : insertAll({v})
    \/ wheelCallback

WheelSpec == WheelInit /\ [][WheelNext]_wheelVars

-----------------------------------------------------------------------------
\* How many ticks ago slot s was the current one.
SlotAge(s) == IF s <= index THEN index - s ELSE index + timeoutSec - s

\* Once the timer runs, the wheel has one slot per second and the index is
\* inside it; before, nothing has been inserted.
WheelTypeOK ==
    /\ timeoutSec \in Nat /\ index \in Nat /\ started \in BOOLEAN
    /\ age \in [Values -> Nat]
    /\ IF started
         THEN /\ index < timeoutSec
              /\ wheel \in [0..(timeoutSec - 1) -> SUBSET Values]
         ELSE index = 0 /\ wheel = [s \in {} |-> {}]

\* A held value is in the slot of its last insert and in no younger one.
AgeMatchesSlot ==
    /\ \A s \in DOMAIN wheel : \A v \in wheel[s] : age[v] <= SlotAge(s)
    /\ \A v \in Held : \E s \in DOMAIN wheel : v \in wheel[s] /\ SlotAge(s) = age[v]

\* Not late: no value outlives timeoutSec_ ticks without a new insert().
NotLate == \A v \in Held : age[v] < timeoutSec

\* Not early: a value is destroyed only by the timeoutSec_-th tick after its
\* last insert(), whatever older slots still held it.
NotEarly ==
    [][\A v \in Held : v \notin Held' => age[v] + 1 = timeoutSec]_wheelVars
=============================================================================
