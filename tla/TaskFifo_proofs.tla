-------------------------- MODULE TaskFifo_proofs --------------------------
(* The abstract queue runs every thread's callbacks once each and in order. *)
EXTENDS TaskFifo, TLAPS

\* Appending thread t's next number keeps the numbering.
LEMMA PostPreserves == ASSUME FifoInv, NEW t \in Threads, Post(t) PROVE FifoInv'
<1> DEFINE e == <<t, sent[t] + 1>>
<1>0. FifoTypeOK /\ Bounded /\ Ordered /\ Complete  BY DEF FifoInv
<1>1. e \in Threads \X Nat  BY <1>0 DEF FifoTypeOK
<1>2. /\ queue' \in Seq(Threads \X Nat)
      /\ Len(queue) \in Nat /\ Len(queue') = Len(queue) + 1
      /\ \A i \in 1..Len(queue) : queue'[i] = queue[i]
      /\ queue'[Len(queue) + 1] = e
  BY <1>0, <1>1 DEF Post, FifoTypeOK
<1>3. /\ sent' \in [Threads -> Nat] /\ sent'[t] = sent[t] + 1 /\ ran' = ran
      /\ \A u \in Threads : u # t => sent'[u] = sent[u]
      /\ sent \in [Threads -> Nat] /\ ran \in [Threads -> Nat]
  BY <1>0 DEF Post, FifoTypeOK
<1>4. FifoTypeOK'  BY <1>2, <1>3 DEF FifoTypeOK
<1>5. \A i \in 1..Len(queue) : queue[i][1] \in Threads /\ queue[i][2] \in Nat
  BY <1>0 DEF FifoTypeOK
<1>6. e[1] = t /\ e[2] = sent[t] + 1  OBVIOUS
<1> HIDE DEF e
<1>7. Bounded'
  <2>1. \A u \in Threads : ran'[u] <= sent'[u]  BY <1>0, <1>3 DEF Bounded
  <2>2. ASSUME NEW i \in 1..Len(queue')
        PROVE  queue'[i][2] > ran'[queue'[i][1]] /\ queue'[i][2] <= sent'[queue'[i][1]]
    <3>1. CASE i = Len(queue) + 1
      <4>1. ran[t] <= sent[t]  BY <1>0 DEF Bounded
      <4> QED BY <3>1, <4>1, <1>2, <1>3, <1>6
    <3>2. CASE i \in 1..Len(queue)
      <4>1. queue'[i] = queue[i]  BY <3>2, <1>2
      <4>2. queue[i][2] > ran[queue[i][1]] /\ queue[i][2] <= sent[queue[i][1]]
        BY <3>2, <1>0 DEF Bounded
      <4>3. \A u \in Threads : sent[u] <= sent'[u] /\ sent[u] \in Nat /\ sent'[u] \in Nat
        BY <1>3
      <4>4. queue[i][1] \in Threads /\ queue[i][2] \in Nat  BY <3>2, <1>5
      <4>5. queue[i][2] <= sent'[queue[i][1]]  BY <4>2, <4>3, <4>4
      <4> QED BY <4>1, <4>2, <4>5, <1>3
    <3> QED BY <3>1, <3>2, <1>2
  <2> QED BY <2>1, <2>2 DEF Bounded
<1>8. Ordered'
  <2> SUFFICES ASSUME NEW i \in 1..Len(queue'), NEW j \in 1..Len(queue'),
                      i < j, queue'[i][1] = queue'[j][1]
               PROVE  queue'[i][2] < queue'[j][2]
    BY DEF Ordered
  <2>1. i \in 1..Len(queue) /\ queue'[i] = queue[i]  BY <1>2
  <2>2. CASE j = Len(queue) + 1
    <3>1. queue'[j] = e  BY <2>2, <1>2
    <3>2. queue[i][1] = t  BY <2>1, <3>1, <1>6
    <3>3. queue[i][2] <= sent[t]  BY <2>1, <3>2, <1>0 DEF Bounded
    <3> QED BY <2>1, <3>1, <3>3, <1>3, <1>5, <1>6
  <2>3. CASE j \in 1..Len(queue)
    <3>1. queue'[j] = queue[j]  BY <2>3, <1>2
    <3>2. queue[i][1] = queue[j][1]  BY <2>1, <3>1
    <3>3. queue[i][2] < queue[j][2]  BY <2>1, <2>3, <3>2, <1>0 DEF Ordered
    <3> QED BY <2>1, <3>1, <3>3
  <2>4. j = Len(queue) + 1 \/ j \in 1..Len(queue)  BY <1>2
  <2> QED BY <2>2, <2>3, <2>4
<1>9. Complete'
  <2> SUFFICES ASSUME NEW u \in Threads, NEW n \in Nat, n > ran[u], n <= sent'[u]
               PROVE  \E i \in 1..Len(queue') : queue'[i] = <<u, n>>
    BY <1>3 DEF Complete
  <2>1. CASE u = t /\ n = sent[t] + 1
    <3>1. Len(queue) + 1 \in 1..Len(queue')  BY <1>2
    <3>2. queue'[Len(queue) + 1] = <<u, n>>  BY <2>1, <1>2 DEF e
    <3> QED BY <3>1, <3>2
  <2>2. CASE n <= sent[u]
    <3>1. PICK i \in 1..Len(queue) : queue[i] = <<u, n>>
      BY <2>2, <1>0 DEF Complete
    <3>2. i \in 1..Len(queue')  BY <1>2
    <3>3. queue'[i] = queue[i]  BY <1>2
    <3> QED BY <3>1, <3>2, <3>3
  <2> QED BY <2>1, <2>2, <1>3
<1> QED BY <1>4, <1>7, <1>8, <1>9 DEF FifoInv

\* The callback at the front is its thread's next one.
LEMMA HeadIsNext ==
  ASSUME FifoInv, queue # <<>>
  PROVE  /\ queue[1][1] \in Threads
         /\ queue[1][2] = ran[queue[1][1]] + 1
         /\ queue[1][2] <= sent[queue[1][1]]
<1> DEFINE t == queue[1][1]
           n == queue[1][2]
<1>0. FifoTypeOK /\ Bounded /\ Ordered /\ Complete  BY DEF FifoInv
<1>1. 1 \in 1..Len(queue) /\ queue[1] \in Threads \X Nat  BY <1>0 DEF FifoTypeOK
<1>2. t \in Threads /\ n \in Nat  BY <1>1
<1>3. n > ran[t] /\ n <= sent[t]  BY <1>0, <1>1 DEF Bounded
<1>4. ran[t] \in Nat /\ sent[t] \in Nat  BY <1>0, <1>2 DEF FifoTypeOK
<1>5. SUFFICES ASSUME n > ran[t] + 1 PROVE FALSE  BY <1>2, <1>3, <1>4
<1>6. PICK i \in 1..Len(queue) : queue[i] = <<t, ran[t] + 1>>
  <2>1. ran[t] + 1 \in Nat /\ ran[t] + 1 > ran[t] /\ ran[t] + 1 <= sent[t]
    BY <1>2, <1>3, <1>4, <1>5
  <2> QED BY <1>0, <1>2, <2>1 DEF Complete
<1>7. queue[i][1] = t /\ queue[i][2] = ran[t] + 1  BY <1>6
<1>8. CASE i = 1  BY <1>2, <1>4, <1>5, <1>7, <1>8
<1>9. CASE i > 1
  <2>1. queue[1][2] < queue[i][2]  BY <1>0, <1>1, <1>7, <1>9 DEF Ordered
  <2> QED BY <2>1, <1>2, <1>4, <1>5, <1>7
<1> QED BY <1>8, <1>9

\* Running the front callback keeps the numbering.
LEMMA RunPreserves == ASSUME FifoInv, Run PROVE FifoInv'
<1> DEFINE t == queue[1][1]
<1>0. FifoTypeOK /\ Bounded /\ Ordered /\ Complete  BY DEF FifoInv
<1>1. /\ queue # <<>> /\ t \in Threads
      /\ queue[1][2] = ran[t] + 1 /\ ran[t] + 1 <= sent[t]
  BY HeadIsNext DEF Run
<1>2. /\ queue' \in Seq(Threads \X Nat)
      /\ Len(queue) \in Nat /\ Len(queue') = Len(queue) - 1
      /\ \A i \in 1..Len(queue') : i + 1 \in 1..Len(queue) /\ queue'[i] = queue[i + 1]
      /\ 1 \in 1..Len(queue)
  BY <1>0, <1>1 DEF Run, FifoTypeOK
<1>3. /\ ran' \in [Threads -> Nat] /\ ran'[t] = ran[t] + 1 /\ sent' = sent
      /\ \A u \in Threads : u # t => ran'[u] = ran[u]
      /\ sent \in [Threads -> Nat] /\ ran \in [Threads -> Nat]
  BY <1>0, <1>1 DEF Run, FifoTypeOK
<1>4. FifoTypeOK'  BY <1>2, <1>3 DEF FifoTypeOK
<1>5. \A i \in 1..Len(queue) : queue[i][1] \in Threads /\ queue[i][2] \in Nat
  BY <1>0 DEF FifoTypeOK
<1>6. Bounded'
  <2>1. \A u \in Threads : ran'[u] <= sent'[u]  BY <1>0, <1>1, <1>3 DEF Bounded
  <2>2. ASSUME NEW i \in 1..Len(queue')
        PROVE  queue'[i][2] > ran'[queue'[i][1]] /\ queue'[i][2] <= sent'[queue'[i][1]]
    <3>1. i + 1 \in 1..Len(queue) /\ queue'[i] = queue[i + 1] /\ 1 < i + 1  BY <1>2
    <3>2. queue[i + 1][2] > ran[queue[i + 1][1]] /\ queue[i + 1][2] <= sent[queue[i + 1][1]]
      BY <3>1, <1>0 DEF Bounded
    <3>3. queue[i + 1][1] = t => queue[i + 1][2] > queue[1][2]
      BY <1>0, <1>2, <1>5, <3>1 DEF Ordered
    <3> QED BY <1>1, <1>3, <1>5, <3>1, <3>2, <3>3
  <2> QED BY <2>1, <2>2 DEF Bounded
<1>7. Ordered'
  <2> SUFFICES ASSUME NEW i \in 1..Len(queue'), NEW j \in 1..Len(queue'),
                      i < j, queue'[i][1] = queue'[j][1]
               PROVE  queue'[i][2] < queue'[j][2]
    BY DEF Ordered
  <2>1. /\ i + 1 \in 1..Len(queue) /\ queue'[i] = queue[i + 1]
        /\ j + 1 \in 1..Len(queue) /\ queue'[j] = queue[j + 1]  BY <1>2
  <2>2. i + 1 < j + 1  BY <1>2
  <2> QED BY <2>1, <2>2, <1>0 DEF Ordered
<1>8. Complete'
  <2> SUFFICES ASSUME NEW u \in Threads, NEW n \in Nat, n > ran'[u], n <= sent[u]
               PROVE  \E i \in 1..Len(queue') : queue'[i] = <<u, n>>
    BY <1>3 DEF Complete
  <2>1. n > ran[u] /\ (u = t => n > ran[t] + 1)  BY <1>1, <1>3
  <2>2. PICK k \in 1..Len(queue) : queue[k] = <<u, n>>
    BY <2>1, <1>0 DEF Complete
  <2>3. k # 1
    <3> SUFFICES ASSUME k = 1 PROVE FALSE  OBVIOUS
    <3>1. u = t /\ n = queue[1][2]  BY <2>2
    <3> QED BY <3>1, <2>1, <1>1, <1>3
  <2>4. k - 1 \in 1..Len(queue')  BY <1>2, <2>3
  <2>5. queue'[k - 1] = queue[(k - 1) + 1]  BY <1>2, <2>4
  <2>6. (k - 1) + 1 = k  OBVIOUS
  <2> QED BY <2>2, <2>4, <2>5, <2>6
<1> QED BY <1>4, <1>6, <1>7, <1>8 DEF FifoInv

\* The queue always holds exactly the callbacks still owed to each thread.
THEOREM FifoInvariant == FifoSpec => []FifoInv
<1>1. FifoInit => FifoInv
  <2> SUFFICES ASSUME FifoInit PROVE FifoInv  OBVIOUS
  <2>1. FifoTypeOK  BY DEF FifoInit, FifoTypeOK
  <2>2. Len(queue) = 0  BY DEF FifoInit
  <2>3. \A t \in Threads : ran[t] = 0 /\ sent[t] = 0  BY DEF FifoInit
  <2> QED BY <2>1, <2>2, <2>3 DEF FifoInv, Bounded, Ordered, Complete
<1>2. FifoInv /\ [FifoNext]_fifoVars => FifoInv'
  <2> SUFFICES ASSUME FifoInv, [FifoNext]_fifoVars PROVE FifoInv'  OBVIOUS
  <2>1. CASE Run  BY <2>1, RunPreserves
  <2>2. CASE \E t \in Threads : Post(t)  BY <2>2, PostPreserves
  <2>3. CASE UNCHANGED fifoVars
    BY <2>3 DEF fifoVars, FifoInv, FifoTypeOK, Bounded, Ordered, Complete
  <2> QED BY <2>1, <2>2, <2>3 DEF FifoNext
<1> QED BY <1>1, <1>2, PTL DEF FifoSpec

\* Callbacks of one thread run once each and in the order it queued them.
THEOREM FifoOnceInOrder == FifoSpec => OnceInOrder
<1>1. ASSUME FifoInv, [FifoNext]_fifoVars
      PROVE  [\A t \in Threads : ran'[t] # ran[t] => ran'[t] = ran[t] + 1]_fifoVars
  <2>1. CASE Run
    <3>1. /\ queue[1][1] \in Threads
          /\ queue[1][2] = ran[queue[1][1]] + 1  BY <1>1, <2>1, HeadIsNext DEF Run
    <3>2. ran \in [Threads -> Nat]  BY <1>1 DEF FifoInv, FifoTypeOK
    <3> QED BY <2>1, <3>1, <3>2 DEF Run
  <2>2. CASE \E t \in Threads : Post(t)  BY <2>2 DEF Post
  <2> QED BY <1>1, <2>1, <2>2 DEF FifoNext
<1> QED BY <1>1, FifoInvariant, PTL DEF FifoSpec, OnceInOrder
=============================================================================
