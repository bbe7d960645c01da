------------------------- MODULE CcThreadPoolProofs -------------------------
(***************************************************************************)
(* Proofs about CcThreadPool, for any set of worker threads and any set of *)
(* jobs.  The inductive invariant is the conjunction of the parts below;   *)
(* each part is kept by every step, given the parts before it.             *)
(***************************************************************************)
EXTENDS CcThreadPool, SequenceTheorems, FiniteSetTheorems, TLAPS

AfterMark == {"destroy_wake", "destroy_join", "destroy_drain",
              "destroy_unlock", "destroy_free", "gone"}
AfterBroadcast == {"destroy_join", "destroy_drain", "destroy_unlock",
                   "destroy_free", "gone"}
AfterDrain == {"destroy_unlock", "destroy_free", "gone"}
Adding == {"add_lock", "add_link", "add_count", "add_unlock", "add_signal"}

\* The mutex: whoever is in a critical section owns it.
LockInv ==
  /\ \A t \in Threads : InCritical(t) => queue_lock = t
  /\ MainInCritical => queue_lock = Main

\* pool_destroy: what is set when, and that no thread is past the test of
\* shutdown once shutdown is set.
ShutdownInv ==
  /\ shutdown <=> mainPc \in AfterMark
  /\ freed <=> mainPc = "gone"
  /\ shutdown => \A t \in Threads : pc[t] \notin {"wait", "unlink", "unlock"}
  /\ mainPc \in AfterBroadcast => \A t \in Threads : pc[t] # "waiting"
  /\ mainPc \in AfterDrain => queue = <<>>
  /\ mainPc \notin AfterDrain => dropped = <<>>

\* The counter lags behind the list by one between the two updates of either
\* kind of critical section; pool_destroy leaves it at the number of jobs it
\* has dropped.
CounterInv ==
  /\ mainPc \notin AfterDrain =>
       cur_queue_size = IF \/ mainPc = "add_count"
                           \/ \E t \in Threads : pc[t] = "unlink"
                        THEN Len(queue) - 1
                        ELSE Len(queue)
  /\ mainPc \in AfterDrain => cur_queue_size = Len(dropped)

\* The history of jobs: what is added is added once, and moves on in order.
HistoryInv ==
  /\ NothingLostOrReordered
  /\ \A i, k \in DOMAIN added : added[i] = added[k] => i = k
  /\ mainPc \in {"add_lock", "add_link"} =>
       \A i \in DOMAIN added : added[i] # newworker
  /\ mainPc \in Adding => newworker \in Jobs

\* Who holds which job.
OwnerInv ==
  /\ \A t \in Threads : worker[t] # NoJob <=> pc[t] \in {"unlock", "process"}
  /\ OneOwner

\* While a job waits and is not being announced right now, a thread is awake;
\* one that is about to wait has seen that there is none, and that still holds.
WakeInv ==
  /\ cur_queue_size > 0 /\ mainPc \notin {"add_unlock", "add_signal"} /\ ~shutdown
       => \E t \in Threads : pc[t] # "waiting"
  /\ \A t \in Threads : pc[t] = "wait" => cur_queue_size = 0

IInv == TypeOK /\ LockInv /\ ShutdownInv /\ CounterInv /\ HistoryInv
          /\ OwnerInv /\ WakeInv

-----------------------------------------------------------------------------
(***************************************************************************)
(* Type correctness.                                                       *)
(***************************************************************************)

\* The initial state, that pool_init leaves, is well typed.
LEMMA InitTypeOK == Init => TypeOK
<1> SUFFICES ASSUME Init PROVE TypeOK
  OBVIOUS
<1>1. <<>> \in Seq(Jobs)
  BY EmptySeq
<1>2. shutdown \in BOOLEAN /\ freed \in BOOLEAN
  BY DEF Init
<1> QED BY <1>1, <1>2 DEF Init, TypeOK, ThreadStates, MainStates

\* Every step keeps the types.
LEMMA NextTypeOK ==
  ASSUME TypeOK, HistoryInv, OwnerInv, [Next]_vars
  PROVE  TypeOK'
<1> USE DEF TypeOK, ThreadStates, MainStates, ThreadTo, history, poolVars,
            mainVars, threadVars
<1>1. ASSUME NEW t \in Threads, ThreadStep(t)
      PROVE  TypeOK'
  <2>1. CASE Lock(t) BY <2>1 DEF Lock
  <2>2. CASE Wait(t) BY <2>2 DEF Wait
  <2>10. CASE FindNothing(t) BY <2>10 DEF FindNothing
  <2>3. CASE SpuriousWake(t) BY <2>3 DEF SpuriousWake
  <2>4. CASE Exit(t) BY <2>4 DEF Exit
  <2>5. CASE CountDown(t) BY <2>5 DEF CountDown
  <2>6. CASE Unlink(t)
    <3>1. /\ Head(queue) \in Jobs
          /\ Tail(queue) \in Seq(Jobs)
      BY <2>6, HeadTailProperties DEF Unlink
    <3>2. Append(taken, Head(queue)) \in Seq(Jobs)
      BY <3>1, AppendProperties
    <3> QED BY <2>6, <3>1, <3>2 DEF Unlink
  <2>7. CASE Unlock(t) BY <2>7 DEF Unlock
  <2>8. CASE Process(t)
    <3>1. worker[t] \in Jobs BY <2>8 DEF Process, OwnerInv
    <3> QED BY <2>8, <3>1 DEF Process
  <2>9. CASE TouchFreed(t) BY <2>9 DEF TouchFreed
  <2> QED
    BY <1>1, <2>1, <2>2, <2>3, <2>4, <2>5, <2>6, <2>7, <2>8, <2>9, <2>10
       DEF ThreadStep
<1>2. ASSUME NEW j \in Jobs, AddWorker(j)
      PROVE  TypeOK'
  BY <1>2 DEF AddWorker
<1>3. CASE AddStep
  <2>1. CASE AddLock BY <2>1 DEF AddLock
  <2>2. CASE AddLink
    <3>1. newworker \in Jobs BY <2>2 DEF AddLink, HistoryInv, Adding
    <3>2. /\ Append(queue, newworker) \in Seq(Jobs)
          /\ Append(added, newworker) \in Seq(Jobs)
      BY <3>1, AppendProperties
    <3> QED BY <2>2, <3>2 DEF AddLink
  <2>3. CASE AddCount BY <2>3 DEF AddCount
  <2>4. CASE AddUnlock BY <2>4 DEF AddUnlock
  <2>5. CASE AddSignal BY <2>5 DEF AddSignal, Waiting
  <2> QED BY <1>3, <2>1, <2>2, <2>3, <2>4, <2>5 DEF AddStep
<1>4. CASE Destroy BY <1>4 DEF Destroy
<1>5. CASE DestroyStep
  <2>1. CASE DestroyLock BY <2>1 DEF DestroyLock
  <2>2. CASE DestroyMark BY <2>2 DEF DestroyMark
  <2>3. CASE DestroyBroadcast BY <2>3 DEF DestroyBroadcast
  <2>4. CASE DestroyJoin BY <2>4 DEF DestroyJoin
  <2>5. CASE DestroyDrain BY <2>5, EmptySeq DEF DestroyDrain
  <2>6. CASE DestroyUnlock BY <2>6 DEF DestroyUnlock
  <2>7. CASE DestroyFree BY <2>7 DEF DestroyFree
  <2> QED
    BY <1>5, <2>1, <2>2, <2>3, <2>4, <2>5, <2>6, <2>7 DEF DestroyStep
<1>6. CASE UNCHANGED vars BY <1>6 DEF vars
<1> QED BY <1>1, <1>2, <1>3, <1>4, <1>5, <1>6 DEF Next

-----------------------------------------------------------------------------
(***************************************************************************)
(* The mutex.                                                              *)
(***************************************************************************)

\* Every step keeps the mutex with the one thread that is between a lock
\* and an unlock.
LEMMA NextLockInv ==
  ASSUME TypeOK, LockInv, ShutdownInv, [Next]_vars
  PROVE  LockInv'
<1> USE DEF TypeOK, ThreadTo, history, poolVars, mainVars, threadVars
<1> USE PoolAssumption DEF LockInv, InCritical, MainInCritical,
            PoolAssumption, ThreadStates, MainStates
<1>1. ASSUME NEW t \in Threads, ThreadStep(t)
      PROVE  LockInv'
  <2>1. CASE Lock(t) BY <2>1 DEF Lock
  <2>2. CASE Wait(t) BY <2>2 DEF Wait
  <2>10. CASE FindNothing(t) BY <2>10 DEF FindNothing
  <2>3. CASE SpuriousWake(t) BY <2>3 DEF SpuriousWake
  <2>4. CASE Exit(t) BY <2>4 DEF Exit
  <2>5. CASE CountDown(t) BY <2>5 DEF CountDown
  <2>6. CASE Unlink(t) BY <2>6 DEF Unlink
  <2>7. CASE Unlock(t) BY <2>7 DEF Unlock
  <2>8. CASE Process(t) BY <2>8 DEF Process
  <2>9. CASE TouchFreed(t)
    BY <2>9 DEF TouchFreed, ShutdownInv
  <2> QED BY <1>1, <2>1, <2>2, <2>3, <2>4, <2>5, <2>6, <2>7, <2>8, <2>9, <2>10
         DEF ThreadStep
<1>2. ASSUME NEW j \in Jobs, AddWorker(j)
      PROVE  LockInv'
  BY <1>2 DEF AddWorker
<1>3. CASE AddStep
  <2>1. CASE AddLock BY <2>1 DEF AddLock
  <2>2. CASE AddLink BY <2>2 DEF AddLink
  <2>3. CASE AddCount BY <2>3 DEF AddCount
  <2>4. CASE AddUnlock BY <2>4 DEF AddUnlock
  <2>5. CASE AddSignal BY <2>5 DEF AddSignal
  <2> QED BY <1>3, <2>1, <2>2, <2>3, <2>4, <2>5 DEF AddStep
<1>4. CASE Destroy BY <1>4 DEF Destroy
<1>5. CASE DestroyStep
  <2>1. CASE DestroyLock BY <2>1 DEF DestroyLock
  <2>2. CASE DestroyMark BY <2>2 DEF DestroyMark
  <2>3. CASE DestroyBroadcast BY <2>3 DEF DestroyBroadcast
  <2>4. CASE DestroyJoin BY <2>4 DEF DestroyJoin
  <2>5. CASE DestroyDrain BY <2>5 DEF DestroyDrain
  <2>6. CASE DestroyUnlock BY <2>6 DEF DestroyUnlock
  <2>7. CASE DestroyFree BY <2>7 DEF DestroyFree
  <2> QED BY <1>5, <2>1, <2>2, <2>3, <2>4, <2>5, <2>6, <2>7 DEF DestroyStep
<1>6. CASE UNCHANGED vars BY <1>6 DEF vars
<1> QED BY <1>1, <1>2, <1>3, <1>4, <1>5, <1>6 DEF Next

-----------------------------------------------------------------------------
(***************************************************************************)
(* pool_destroy.                                                           *)
(***************************************************************************)

\* Every step keeps shutdown consistent with where pool_destroy is.
LEMMA NextShutdownInv ==
  ASSUME TypeOK, LockInv, ShutdownInv, [Next]_vars
  PROVE  ShutdownInv'
<1> USE DEF TypeOK, ThreadTo, history, poolVars, mainVars, threadVars
<1> USE PoolAssumption DEF ShutdownInv, AfterMark, AfterBroadcast, AfterDrain,
            PoolAssumption, ThreadStates, MainStates
<1>1. ASSUME NEW t \in Threads, ThreadStep(t)
      PROVE  ShutdownInv'
  <2>1. CASE Lock(t) BY <2>1 DEF Lock
  <2>2. CASE Wait(t) BY <2>2 DEF Wait
  <2>10. CASE FindNothing(t) BY <2>10 DEF FindNothing
  <2>3. CASE SpuriousWake(t) BY <2>3 DEF SpuriousWake
  <2>4. CASE Exit(t) BY <2>4 DEF Exit
  <2>5. CASE CountDown(t) BY <2>5 DEF CountDown
  <2>6. CASE Unlink(t) BY <2>6 DEF Unlink
  <2>7. CASE Unlock(t) BY <2>7 DEF Unlock
  <2>8. CASE Process(t) BY <2>8 DEF Process
  <2>9. CASE TouchFreed(t) BY <2>9 DEF TouchFreed
  <2> QED BY <1>1, <2>1, <2>2, <2>3, <2>4, <2>5, <2>6, <2>7, <2>8, <2>9, <2>10
         DEF ThreadStep
<1>2. ASSUME NEW j \in Jobs, AddWorker(j)
      PROVE  ShutdownInv'
  BY <1>2 DEF AddWorker
<1>3. CASE AddStep
  <2>1. CASE AddLock BY <2>1 DEF AddLock
  <2>2. CASE AddLink BY <2>2 DEF AddLink
  <2>3. CASE AddCount BY <2>3 DEF AddCount
  <2>4. CASE AddUnlock BY <2>4 DEF AddUnlock
  <2>5. CASE AddSignal BY <2>5 DEF AddSignal, Waiting
  <2> QED BY <1>3, <2>1, <2>2, <2>3, <2>4, <2>5 DEF AddStep
<1>4. CASE Destroy BY <1>4 DEF Destroy
<1>5. CASE DestroyStep
  <2>1. CASE DestroyLock BY <2>1 DEF DestroyLock
  <2>2. CASE DestroyMark BY <2>2 DEF DestroyMark, LockInv, InCritical, MainInCritical
  <2>3. CASE DestroyBroadcast BY <2>3 DEF DestroyBroadcast, Waiting
  <2>4. CASE DestroyJoin BY <2>4 DEF DestroyJoin
  <2>5. CASE DestroyDrain BY <2>5 DEF DestroyDrain
  <2>6. CASE DestroyUnlock BY <2>6 DEF DestroyUnlock
  <2>7. CASE DestroyFree BY <2>7 DEF DestroyFree
  <2> QED BY <1>5, <2>1, <2>2, <2>3, <2>4, <2>5, <2>6, <2>7 DEF DestroyStep
<1>6. CASE UNCHANGED vars BY <1>6 DEF vars
<1> QED BY <1>1, <1>2, <1>3, <1>4, <1>5, <1>6 DEF Next

-----------------------------------------------------------------------------
(***************************************************************************)
(* The counter and the list.                                               *)
(***************************************************************************)

\* Every step keeps the counter equal to the length of the list, but for
\* the steps inside a critical section that change one before the other.
LEMMA NextCounterInv ==
  ASSUME TypeOK, LockInv, ShutdownInv, CounterInv, HistoryInv, [Next]_vars
  PROVE  CounterInv'
<1> USE DEF TypeOK, ThreadTo, history, poolVars, mainVars, threadVars
<1> USE PoolAssumption DEF CounterInv, AfterDrain, AfterMark, LockInv, InCritical,
            MainInCritical, PoolAssumption, ThreadStates, MainStates
<1>1. ASSUME NEW t \in Threads, ThreadStep(t)
      PROVE  CounterInv'
  <2>1. CASE Lock(t) BY <2>1 DEF Lock
  <2>2. CASE Wait(t) BY <2>2 DEF Wait
  <2>10. CASE FindNothing(t) BY <2>10 DEF FindNothing
  <2>3. CASE SpuriousWake(t) BY <2>3 DEF SpuriousWake
  <2>4. CASE Exit(t) BY <2>4 DEF Exit
  <2>5. CASE CountDown(t)
    <3>1. /\ \A u \in Threads : pc[u] # "unlink"
          /\ mainPc # "add_count"
      BY <2>5 DEF CountDown
    <3>2. pc'[t] = "unlink" /\ queue' = queue /\ mainPc' = mainPc
      BY <2>5 DEF CountDown
    <3>4. mainPc \notin AfterDrain
      BY <2>5 DEF CountDown, ShutdownInv
    <3>3. cur_queue_size' = cur_queue_size - 1
      BY <2>5 DEF CountDown
    <3> QED BY <3>1, <3>2, <3>3, <3>4
  <2>6. CASE Unlink(t)
    <3>1. /\ \A u \in Threads : pc'[u] # "unlink"
          /\ mainPc' # "add_count"
          /\ mainPc' = mainPc
          /\ mainPc \notin AfterDrain
      BY <2>6 DEF Unlink, ShutdownInv
    <3>2. Len(queue') = Len(queue) - 1
      BY <2>6, HeadTailProperties DEF Unlink
    <3>3. pc[t] = "unlink" /\ cur_queue_size' = cur_queue_size
      BY <2>6 DEF Unlink
    <3> QED BY <3>1, <3>2, <3>3
  <2>7. CASE Unlock(t) BY <2>7 DEF Unlock
  <2>8. CASE Process(t) BY <2>8 DEF Process
  <2>9. CASE TouchFreed(t) BY <2>9 DEF TouchFreed
  <2> QED BY <1>1, <2>1, <2>2, <2>3, <2>4, <2>5, <2>6, <2>7, <2>8, <2>9, <2>10
         DEF ThreadStep
<1>2. ASSUME NEW j \in Jobs, AddWorker(j)
      PROVE  CounterInv'
  BY <1>2 DEF AddWorker
<1>3. CASE AddStep
  <2>1. CASE AddLock BY <2>1 DEF AddLock
  <2>2. CASE AddLink
    <3>1. \A u \in Threads : pc[u] # "unlink"
      BY <2>2 DEF AddLink
    <3>2. newworker \in Jobs
      BY <2>2 DEF AddLink, HistoryInv, Adding
    <3>3. Len(queue') = Len(queue) + 1 /\ Len(queue) \in Nat
      BY <2>2, <3>2, AppendProperties, LenProperties DEF AddLink
    <3>4. cur_queue_size = Len(queue) /\ cur_queue_size' = cur_queue_size
      BY <2>2, <3>1 DEF AddLink
    <3>5. mainPc' = "add_count"
      BY <2>2 DEF AddLink
    <3> QED BY <3>3, <3>4, <3>5
  <2>3. CASE AddCount
    <3>1. \A u \in Threads : pc'[u] # "unlink"
      BY <2>3 DEF AddCount
    <3>2. cur_queue_size = Len(queue) - 1 /\ Len(queue) \in Nat
      BY <2>3, LenProperties DEF AddCount
    <3>3. /\ mainPc' = "add_unlock"
          /\ queue' = queue
          /\ cur_queue_size' = cur_queue_size + 1
      BY <2>3 DEF AddCount
    <3> QED BY <3>1, <3>2, <3>3
  <2>4. CASE AddUnlock BY <2>4 DEF AddUnlock
  <2>5. CASE AddSignal BY <2>5 DEF AddSignal, Waiting
  <2> QED BY <1>3, <2>1, <2>2, <2>3, <2>4, <2>5 DEF AddStep
<1>4. CASE Destroy BY <1>4 DEF Destroy
<1>5. CASE DestroyStep
  <2>1. CASE DestroyLock BY <2>1 DEF DestroyLock
  <2>2. CASE DestroyMark BY <2>2 DEF DestroyMark
  <2>3. CASE DestroyBroadcast BY <2>3 DEF DestroyBroadcast, Waiting
  <2>4. CASE DestroyJoin BY <2>4 DEF DestroyJoin
  <2>5. CASE DestroyDrain
    <3>1. mainPc # "add_count" /\ \A u \in Threads : pc[u] # "unlink"
      BY <2>5 DEF DestroyDrain
    <3>2. cur_queue_size = Len(queue) BY <2>5, <3>1 DEF DestroyDrain
    <3> QED BY <2>5, <3>2 DEF DestroyDrain
  <2>6. CASE DestroyUnlock BY <2>6 DEF DestroyUnlock
  <2>7. CASE DestroyFree BY <2>7 DEF DestroyFree
  <2> QED BY <1>5, <2>1, <2>2, <2>3, <2>4, <2>5, <2>6, <2>7 DEF DestroyStep
<1>6. CASE UNCHANGED vars BY <1>6 DEF vars
<1> QED BY <1>1, <1>2, <1>3, <1>4, <1>5, <1>6 DEF Next

-----------------------------------------------------------------------------
(***************************************************************************)
(* Sequences: moving the head of one sequence to the end of another one    *)
(* leaves their concatenation alone, and so on.                            *)
(***************************************************************************)

\* Moving the head of a sequence to the end of the one before it leaves the
\* concatenation of the two as it was.
LEMMA MoveHead ==
  ASSUME NEW S, NEW a \in Seq(S), NEW b \in Seq(S), b # <<>>
  PROVE  Append(a, Head(b)) \o Tail(b) = a \o b
<1>1. /\ Head(b) \in S /\ Head(b) = b[1]
      /\ Tail(b) \in Seq(S)
      /\ Len(Tail(b)) = Len(b) - 1
      /\ \A i \in 1 .. Len(Tail(b)) : Tail(b)[i] = b[i + 1]
  BY HeadTailProperties
<1>2. /\ Append(a, Head(b)) \in Seq(S)
      /\ Len(Append(a, Head(b))) = Len(a) + 1
      /\ \A i \in 1 .. Len(a) : Append(a, Head(b))[i] = a[i]
      /\ Append(a, Head(b))[Len(a) + 1] = b[1]
  BY <1>1, AppendProperties
<1> DEFINE l == Append(a, Head(b)) \o Tail(b)
           r == a \o b
<1>3. /\ Len(a) \in Nat /\ Len(b) \in Nat /\ Len(b) > 0
  BY LenProperties, EmptySeq
<1>4. /\ l \in Seq(S)
      /\ Len(l) = Len(a) + Len(b)
      /\ \A i \in 1 .. Len(a) + Len(b) :
           l[i] = IF i <= Len(a) + 1 THEN Append(a, Head(b))[i]
                  ELSE Tail(b)[i - (Len(a) + 1)]
  BY <1>1, <1>2, <1>3, ConcatProperties
<1>5. /\ r \in Seq(S)
      /\ Len(r) = Len(a) + Len(b)
      /\ \A i \in 1 .. Len(a) + Len(b) :
           r[i] = IF i <= Len(a) THEN a[i] ELSE b[i - Len(a)]
  BY ConcatProperties
<1>6. ASSUME NEW i \in 1 .. Len(l) PROVE l[i] = r[i]
  <2>1. i \in 1 .. Len(a) + Len(b) BY <1>4
  <2>2. CASE i <= Len(a) BY <2>1, <2>2, <1>2, <1>3, <1>4, <1>5
  <2>3. CASE i = Len(a) + 1 BY <2>1, <2>3, <1>2, <1>3, <1>4, <1>5
  <2>4. CASE i > Len(a) + 1
    <3>1. i - (Len(a) + 1) \in 1 .. Len(Tail(b)) BY <2>1, <2>4, <1>1, <1>3
    <3>2. Tail(b)[i - (Len(a) + 1)] = b[i - Len(a)] BY <3>1, <1>1, <1>3
    <3> QED BY <2>1, <2>4, <3>2, <1>3, <1>4, <1>5
  <2> QED BY <2>1, <2>2, <2>3, <2>4, <1>3
<1> HIDE DEF l, r
<1>7. l = r BY <1>4, <1>5, <1>6, SeqEqual
<1> QED BY <1>7 DEF l, r

\* Appending to the second of two sequences appends to their concatenation.
LEMMA ConcatAppend ==
  ASSUME NEW S, NEW a \in Seq(S), NEW b \in Seq(S), NEW e \in S
  PROVE  a \o Append(b, e) = Append(a \o b, e)
<1>1. /\ Append(b, e) = b \o <<e>>
      /\ <<e>> \in Seq(S)
  BY AppendIsConcat
<1>2. a \o b \in Seq(S) BY ConcatProperties
<1>3. Append(a \o b, e) = (a \o b) \o <<e>> BY <1>2, AppendIsConcat
<1> QED BY <1>1, <1>3, ConcatAssociative

-----------------------------------------------------------------------------
(***************************************************************************)
(* The history of jobs.                                                    *)
(***************************************************************************)

\* Every step keeps what was taken, followed by the list, equal to what was
\* linked.
LEMMA NextHistoryInv ==
  ASSUME TypeOK, LockInv, ShutdownInv, HistoryInv, [Next]_vars
  PROVE  HistoryInv'
<1> USE DEF TypeOK, ThreadTo, history, poolVars, mainVars, threadVars
<1> USE DEF HistoryInv, NothingLostOrReordered, Adding, ThreadStates, MainStates
<1>1. ASSUME NEW t \in Threads, ThreadStep(t)
      PROVE  HistoryInv'
  <2>1. CASE Lock(t) BY <2>1 DEF Lock
  <2>2. CASE Wait(t) BY <2>2 DEF Wait
  <2>10. CASE FindNothing(t) BY <2>10 DEF FindNothing
  <2>3. CASE SpuriousWake(t) BY <2>3 DEF SpuriousWake
  <2>4. CASE Exit(t) BY <2>4 DEF Exit
  <2>5. CASE CountDown(t) BY <2>5 DEF CountDown
  <2>6. CASE Unlink(t)
    <3>1. mainPc \notin AfterDrain BY <2>6 DEF Unlink, ShutdownInv, AfterMark, AfterDrain
    <3>2. dropped = <<>> /\ dropped' = <<>> BY <3>1, <2>6 DEF ShutdownInv, Unlink
    <3>3. added = taken \o queue
      BY <3>2, ConcatProperties, ConcatEmptySeq
    <3>4. taken' \o queue' = taken \o queue
      BY <2>6, MoveHead DEF Unlink
    <3>5. /\ taken' \o queue' \in Seq(Jobs)
      BY <3>4, ConcatProperties
    <3>6. added' = taken' \o queue' \o dropped'
      BY <2>6, <3>2, <3>3, <3>4, <3>5, ConcatEmptySeq DEF Unlink
    <3> QED BY <2>6, <3>6 DEF Unlink
  <2>7. CASE Unlock(t) BY <2>7 DEF Unlock
  <2>8. CASE Process(t) BY <2>8 DEF Process
  <2>9. CASE TouchFreed(t) BY <2>9 DEF TouchFreed
  <2> QED BY <1>1, <2>1, <2>2, <2>3, <2>4, <2>5, <2>6, <2>7, <2>8, <2>9, <2>10
         DEF ThreadStep
<1>2. ASSUME NEW j \in Jobs, AddWorker(j)
      PROVE  HistoryInv'
  BY <1>2 DEF AddWorker
<1>3. CASE AddStep
  <2>1. CASE AddLock BY <2>1 DEF AddLock
  <2>2. CASE AddLink
    <3>1. newworker \in Jobs BY <2>2 DEF AddLink
    <3>2. dropped = <<>> /\ dropped' = <<>>
      BY <2>2 DEF AddLink, ShutdownInv, AfterDrain
    <3>3. added = taken \o queue
      BY <3>2, ConcatProperties, ConcatEmptySeq
    <3>4. taken' \o queue' = Append(added, newworker)
      BY <2>2, <3>1, <3>3, ConcatAppend DEF AddLink
    <3>5. added' \in Seq(Jobs) /\ added' = Append(added, newworker)
      BY <2>2, <3>1, AppendProperties DEF AddLink
    <3>6. added' = taken' \o queue' \o dropped'
      BY <3>2, <3>4, <3>5, ConcatEmptySeq
    <3>7. /\ Len(added) \in Nat
          /\ Len(added') = Len(added) + 1
          /\ DOMAIN added = 1 .. Len(added)
          /\ DOMAIN added' = 1 .. Len(added')
          /\ \A i \in 1 .. Len(added) : added'[i] = added[i]
          /\ added'[Len(added) + 1] = newworker
      BY <3>1, <3>5, AppendProperties, LenProperties
    <3>8. \A i, k \in DOMAIN added' : added'[i] = added'[k] => i = k
      <4> SUFFICES ASSUME NEW i \in DOMAIN added', NEW k \in DOMAIN added',
                          added'[i] = added'[k]
                   PROVE  i = k
        OBVIOUS
      <4>1. \A n \in DOMAIN added : added[n] # newworker BY <2>2 DEF AddLink
      <4> HIDE DEF TypeOK, HistoryInv
      <4>a. i \in 1 .. Len(added) + 1 /\ k \in 1 .. Len(added) + 1
        BY <3>7
      <4>2. \/ i \in DOMAIN added \/ i = Len(added) + 1 BY <4>a, <3>7
      <4>3. \/ k \in DOMAIN added \/ k = Len(added) + 1 BY <4>a, <3>7
      <4> QED BY <3>7, <4>1, <4>2, <4>3 DEF HistoryInv
    <3>9. mainPc' = "add_count" /\ newworker' \in Jobs BY <2>2, <3>1 DEF AddLink
    <3> QED BY <3>6, <3>8, <3>9
  <2>3. CASE AddCount BY <2>3 DEF AddCount
  <2>4. CASE AddUnlock BY <2>4 DEF AddUnlock
  <2>5. CASE AddSignal BY <2>5 DEF AddSignal
  <2> QED BY <1>3, <2>1, <2>2, <2>3, <2>4, <2>5 DEF AddStep
<1>4. CASE Destroy BY <1>4 DEF Destroy
<1>5. CASE DestroyStep
  <2>1. CASE DestroyLock BY <2>1 DEF DestroyLock
  <2>2. CASE DestroyMark BY <2>2 DEF DestroyMark
  <2>3. CASE DestroyBroadcast BY <2>3 DEF DestroyBroadcast
  <2>4. CASE DestroyJoin BY <2>4 DEF DestroyJoin
  <2>5. CASE DestroyDrain
    <3>1. dropped = <<>> /\ queue' = <<>> /\ dropped' = queue
      BY <2>5 DEF DestroyDrain, ShutdownInv, AfterDrain
    <3>2. taken \o queue \in Seq(Jobs) /\ taken \o <<>> = taken
      BY ConcatProperties, ConcatEmptySeq
    <3>3. taken \o queue \o <<>> = taken \o queue BY <3>2, ConcatEmptySeq
    <3>4. added' = taken' \o queue' \o dropped'
      BY <2>5, <3>1, <3>2, <3>3 DEF DestroyDrain
    <3> QED BY <2>5, <3>4 DEF DestroyDrain
  <2>6. CASE DestroyUnlock BY <2>6 DEF DestroyUnlock
  <2>7. CASE DestroyFree BY <2>7 DEF DestroyFree
  <2> QED BY <1>5, <2>1, <2>2, <2>3, <2>4, <2>5, <2>6, <2>7 DEF DestroyStep
<1>6. CASE UNCHANGED vars BY <1>6 DEF vars
<1> QED BY <1>1, <1>2, <1>3, <1>4, <1>5, <1>6 DEF Next

-----------------------------------------------------------------------------
(***************************************************************************)
(* Who holds which job.                                                    *)
(***************************************************************************)

\* The job at the head of the list has not been taken before.
LEMMA HeadIsNew ==
  ASSUME TypeOK, HistoryInv, dropped = <<>>, queue # <<>>
  PROVE  Head(queue) \notin Taken
<1>1. added = taken \o queue
  BY ConcatProperties, ConcatEmptySeq
     DEF TypeOK, HistoryInv, NothingLostOrReordered
<1>2. /\ Len(taken) \in Nat /\ Len(queue) \in Nat /\ Len(queue) > 0
      /\ DOMAIN taken = 1 .. Len(taken)
      /\ Head(queue) = queue[1]
  BY LenProperties, EmptySeq DEF TypeOK
<1>3. /\ DOMAIN added = 1 .. Len(taken) + Len(queue)
      /\ \A i \in 1 .. Len(taken) + Len(queue) :
           added[i] = IF i <= Len(taken) THEN taken[i] ELSE queue[i - Len(taken)]
  BY <1>1, ConcatProperties, LenProperties DEF TypeOK
<1>4. added[Len(taken) + 1] = Head(queue)
  BY <1>2, <1>3
<1>5. ASSUME NEW i \in DOMAIN taken PROVE taken[i] # Head(queue)
  <2>1. i \in DOMAIN added /\ added[i] = taken[i] BY <1>2, <1>3
  <2>2. Len(taken) + 1 \in DOMAIN added /\ i # Len(taken) + 1 BY <1>2, <1>3
  <2> QED BY <1>4, <2>1, <2>2 DEF HistoryInv
<1> QED BY <1>5 DEF Taken

\* Unlinking gives the head of the list to a thread that held no job.
LEMMA UnlinkMoves ==
  ASSUME TypeOK, LockInv, ShutdownInv, HistoryInv, OwnerInv,
         NEW t \in Threads, Unlink(t)
  PROVE  /\ ~shutdown /\ queue # <<>> /\ worker[t] = NoJob
         /\ Held' = Held \cup {Head(queue)}
         /\ done' = done /\ queue' = Tail(queue) /\ dropped' = dropped
         /\ shutdown' = shutdown
         /\ OwnerInv'
<1> USE DEF TypeOK, ThreadTo, history, poolVars, mainVars, threadVars
<1>0. Unlink(t) OBVIOUS
<1> DEFINE h == Head(queue)
<1>1. mainPc \notin AfterDrain BY <1>0 DEF Unlink, ShutdownInv, AfterMark, AfterDrain
<1>2. dropped = <<>> /\ queue # <<>> BY <1>1, <1>0 DEF ShutdownInv, Unlink
<1>3. h \notin Taken BY <1>2, HeadIsNew
<1>4. h \in Jobs BY <1>2, HeadTailProperties
<1>5. worker[t] = NoJob BY <1>0 DEF Unlink, OwnerInv
<1>6. /\ worker' = [worker EXCEPT ![t] = h]
      /\ done' = done
      /\ taken' = Append(taken, h)
      /\ pc' = [pc EXCEPT ![t] = "unlock"]
  BY <1>0 DEF Unlink
<1>7. /\ DOMAIN taken = 1 .. Len(taken)
      /\ DOMAIN taken' = 1 .. Len(taken) + 1
      /\ Len(taken) \in Nat
      /\ taken'[Len(taken) + 1] = h
      /\ \A i \in 1 .. Len(taken) : taken'[i] = taken[i]
  BY <1>4, <1>6, AppendProperties, LenProperties
<1> HIDE DEF h
<1>8. Taken' = Taken \cup {h}
  <2>1. ASSUME NEW x PROVE x \in Taken' <=> x \in Taken \cup {h}
    <3>0. Len(taken) + 1 \in DOMAIN taken' BY <1>7
    <3>1. CASE x = h BY <3>0, <3>1, <1>7 DEF Taken
    <3>2. CASE x # h
      <4>1. ASSUME NEW i \in DOMAIN taken', x = taken'[i]
            PROVE  i \in DOMAIN taken /\ x = taken[i]
        BY <3>2, <4>1, <1>7
      <4>2. \A i \in DOMAIN taken : i \in DOMAIN taken' /\ taken'[i] = taken[i]
        BY <1>7
      <4> QED BY <3>2, <4>1, <4>2 DEF Taken
    <3> QED BY <3>1, <3>2
  <2> QED BY <2>1
<1>9. Held' = Held \cup {h}
  <2>1. \A u \in Threads : worker'[u] = IF u = t THEN h ELSE worker[u]
    BY <1>6
  <2>2. h # NoJob BY <1>4, PoolAssumption DEF PoolAssumption
  <2> QED BY <2>1, <2>2, <1>5 DEF Held
<1>10. h \notin Held /\ h \notin done BY <1>3 DEF OwnerInv, OneOwner
<1>11. OneOwner'
  <2>1. Taken' = Held' \cup done' /\ Held' \cap done' = {}
    BY <1>6, <1>8, <1>9, <1>10 DEF OwnerInv, OneOwner
  <2>2. \A u, v \in Threads :
          worker'[u] = worker'[v] /\ worker'[u] # NoJob => u = v
    <3>1. \A u \in Threads : worker[u] # h
      BY <1>4, <1>10, PoolAssumption DEF Held, PoolAssumption
    <3> QED BY <1>6, <3>1 DEF OwnerInv, OneOwner
  <2> QED BY <2>1, <2>2 DEF OneOwner
<1>12. \A u \in Threads :
         worker'[u] # NoJob <=> pc'[u] \in {"unlock", "process"}
  BY <1>4, <1>6, PoolAssumption DEF OwnerInv, PoolAssumption
<1>13. OwnerInv' BY <1>11, <1>12 DEF OwnerInv
<1>14. /\ ~shutdown /\ shutdown' = shutdown
       /\ queue' = Tail(queue) /\ dropped' = dropped
  BY <1>0 DEF Unlink, ShutdownInv
<1> QED BY <1>2, <1>5, <1>6, <1>9, <1>13, <1>14 DEF h

\* Processing a job frees it and leaves the thread without one.
LEMMA ProcessMoves ==
  ASSUME TypeOK, LockInv, ShutdownInv, HistoryInv, OwnerInv,
         NEW t \in Threads, Process(t)
  PROVE  /\ worker[t] \in Jobs /\ worker[t] \in Held
         /\ Held' = Held \ {worker[t]}
         /\ done' = done \cup {worker[t]}
         /\ UNCHANGED <<queue, dropped, shutdown>>
         /\ OwnerInv'
<1> USE DEF TypeOK, ThreadTo, history, poolVars, mainVars, threadVars
<1>0. Process(t) OBVIOUS
<1> DEFINE w == worker[t]
<1>1. w # NoJob /\ w \in Jobs /\ w \in Held
  BY <1>0 DEF Process, OwnerInv, Held
<1>a. \A u \in Threads : worker[u] = w => u = t
  BY <1>1 DEF OwnerInv, OneOwner
<1>2. /\ worker' = [worker EXCEPT ![t] = NoJob]
      /\ done' = done \cup {w}
      /\ taken' = taken
      /\ pc' = [pc EXCEPT ![t] = "lock"]
  BY <1>0 DEF Process
<1>3. Taken' = Taken BY <1>2 DEF Taken
<1> HIDE DEF w
<1>4. Held' = Held \ {w}
  <2>1. \A u \in Threads : worker'[u] = IF u = t THEN NoJob ELSE worker[u]
    BY <1>2
  <2>2. worker[t] = w BY DEF w
  <2> QED BY <2>1, <2>2, <1>a DEF Held
<1>5. OneOwner'
  <2>1. Taken' = Held' \cup done' /\ Held' \cap done' = {}
    BY <1>1, <1>2, <1>3, <1>4 DEF OwnerInv, OneOwner
  <2>2. \A u, v \in Threads :
          worker'[u] = worker'[v] /\ worker'[u] # NoJob => u = v
    BY <1>2 DEF OwnerInv, OneOwner
  <2> QED BY <2>1, <2>2 DEF OneOwner
<1>6. \A u \in Threads :
        worker'[u] # NoJob <=> pc'[u] \in {"unlock", "process"}
  BY <1>2 DEF OwnerInv
<1>7. OwnerInv' BY <1>5, <1>6 DEF OwnerInv
<1>8. UNCHANGED <<queue, dropped, shutdown>> BY <1>0 DEF Process
<1> QED BY <1>1, <1>2, <1>4, <1>7, <1>8 DEF w

\* Every step keeps each job that left the list with one owner.
LEMMA NextOwnerInv ==
  ASSUME TypeOK, LockInv, ShutdownInv, HistoryInv, OwnerInv, [Next]_vars
  PROVE  OwnerInv'
<1> USE DEF TypeOK, ThreadTo, history, poolVars, mainVars, threadVars
<1> USE DEF ThreadStates, MainStates
<1> DEFINE Holding == {"unlock", "process"}
<1>0. ASSUME UNCHANGED <<worker, done, taken>>,
             \A u \in Threads : pc'[u] \in Holding <=> pc[u] \in Holding
      PROVE  OwnerInv'
  BY SMTT(20), <1>0 DEF OwnerInv, OneOwner, Taken, Held
<1>1. ASSUME NEW t \in Threads, ThreadStep(t)
      PROVE  OwnerInv'
  <2>1. CASE Lock(t) BY <2>1, <1>0 DEF Lock
  <2>2. CASE Wait(t) BY <2>2, <1>0 DEF Wait
  <2>10. CASE FindNothing(t) BY <2>10, <1>0 DEF FindNothing
  <2>3. CASE SpuriousWake(t) BY <2>3, <1>0 DEF SpuriousWake
  <2>4. CASE Exit(t) BY <2>4, <1>0 DEF Exit
  <2>5. CASE CountDown(t) BY <2>5, <1>0 DEF CountDown
  <2>6. CASE Unlink(t) BY <2>6, UnlinkMoves
  <2>7. CASE Unlock(t) BY <2>7, <1>0 DEF Unlock
  <2>8. CASE Process(t) BY <2>8, ProcessMoves
  <2>9. CASE TouchFreed(t) BY <2>9, <1>0 DEF TouchFreed
  <2> QED BY <1>1, <2>1, <2>2, <2>3, <2>4, <2>5, <2>6, <2>7, <2>8, <2>9, <2>10
         DEF ThreadStep
<1>2. ASSUME NEW j \in Jobs, AddWorker(j)
      PROVE  OwnerInv'
  BY <1>2, <1>0 DEF AddWorker
<1>3. CASE AddStep
  <2>1. CASE AddLock BY <2>1, <1>0 DEF AddLock
  <2>2. CASE AddLink BY <2>2, <1>0 DEF AddLink
  <2>3. CASE AddCount BY <2>3, <1>0 DEF AddCount
  <2>4. CASE AddUnlock BY <2>4, <1>0 DEF AddUnlock
  <2>5. CASE AddSignal BY <2>5, <1>0 DEF AddSignal, Waiting
  <2> QED BY <1>3, <2>1, <2>2, <2>3, <2>4, <2>5 DEF AddStep
<1>4. CASE Destroy BY <1>4, <1>0 DEF Destroy
<1>5. CASE DestroyStep
  <2>1. CASE DestroyLock BY <2>1, <1>0 DEF DestroyLock
  <2>2. CASE DestroyMark BY <2>2, <1>0 DEF DestroyMark
  <2>3. CASE DestroyBroadcast BY <2>3, <1>0 DEF DestroyBroadcast, Waiting
  <2>4. CASE DestroyJoin BY <2>4, <1>0 DEF DestroyJoin
  <2>5. CASE DestroyDrain BY <2>5, <1>0 DEF DestroyDrain
  <2>6. CASE DestroyUnlock BY <2>6, <1>0 DEF DestroyUnlock
  <2>7. CASE DestroyFree BY <2>7, <1>0 DEF DestroyFree
  <2> QED BY <1>5, <2>1, <2>2, <2>3, <2>4, <2>5, <2>6, <2>7 DEF DestroyStep
<1>6. CASE UNCHANGED vars BY <1>6, <1>0 DEF vars
<1> QED BY <1>1, <1>2, <1>3, <1>4, <1>5, <1>6 DEF Next

-----------------------------------------------------------------------------
(***************************************************************************)
(* No wake-up is lost.                                                     *)
(***************************************************************************)

\* Every step keeps a waiting job accompanied by a thread that will see it.
LEMMA NextWakeInv ==
  ASSUME TypeOK, LockInv, ShutdownInv, WakeInv, [Next]_vars
  PROVE  WakeInv'
<1> USE DEF TypeOK, ThreadTo, history, poolVars, mainVars, threadVars
<1> USE PoolAssumption DEF WakeInv, ThreadStates, MainStates, PoolAssumption
<1>1. ASSUME NEW t \in Threads, ThreadStep(t)
      PROVE  WakeInv'
  <2>1. CASE Lock(t) BY <2>1 DEF Lock
  <2>2. CASE Wait(t) BY <2>2 DEF Wait
  <2>10. CASE FindNothing(t) BY <2>10 DEF FindNothing
  <2>3. CASE SpuriousWake(t) BY <2>3 DEF SpuriousWake
  <2>4. CASE Exit(t) BY <2>4 DEF Exit
  <2>5. CASE CountDown(t)
    BY <2>5 DEF CountDown, LockInv, InCritical
  <2>6. CASE Unlink(t) BY <2>6 DEF Unlink
  <2>7. CASE Unlock(t) BY <2>7 DEF Unlock
  <2>8. CASE Process(t) BY <2>8 DEF Process
  <2>9. CASE TouchFreed(t) BY <2>9 DEF TouchFreed
  <2> QED BY <1>1, <2>1, <2>2, <2>3, <2>4, <2>5, <2>6, <2>7, <2>8, <2>9, <2>10
         DEF ThreadStep
<1>2. ASSUME NEW j \in Jobs, AddWorker(j)
      PROVE  WakeInv'
  BY <1>2 DEF AddWorker
<1>3. CASE AddStep
  <2>1. CASE AddLock BY <2>1 DEF AddLock
  <2>2. CASE AddLink BY <2>2 DEF AddLink
  <2>3. CASE AddCount
    BY <2>3 DEF AddCount, LockInv, InCritical, MainInCritical
  <2>4. CASE AddUnlock BY <2>4 DEF AddUnlock
  <2>5. CASE AddSignal BY <2>5 DEF AddSignal, Waiting
  <2> QED BY <1>3, <2>1, <2>2, <2>3, <2>4, <2>5 DEF AddStep
<1>4. CASE Destroy BY <1>4 DEF Destroy
<1>5. CASE DestroyStep
  <2>1. CASE DestroyLock BY <2>1 DEF DestroyLock
  <2>2. CASE DestroyMark BY <2>2 DEF DestroyMark
  <2>3. CASE DestroyBroadcast BY <2>3 DEF DestroyBroadcast, Waiting
  <2>4. CASE DestroyJoin BY <2>4 DEF DestroyJoin
  <2>5. CASE DestroyDrain BY <2>5 DEF DestroyDrain
  <2>6. CASE DestroyUnlock BY <2>6 DEF DestroyUnlock
  <2>7. CASE DestroyFree BY <2>7 DEF DestroyFree
  <2> QED BY <1>5, <2>1, <2>2, <2>3, <2>4, <2>5, <2>6, <2>7 DEF DestroyStep
<1>6. CASE UNCHANGED vars BY <1>6 DEF vars
<1> QED BY <1>1, <1>2, <1>3, <1>4, <1>5, <1>6 DEF Next

-----------------------------------------------------------------------------
(***************************************************************************)
(* The inductive invariant, and the safety properties.                     *)
(***************************************************************************)

\* The strengthening holds initially.
LEMMA InitIInv == Init => IInv
<1> SUFFICES ASSUME Init PROVE IInv
  OBVIOUS
<1>1. TypeOK BY InitTypeOK
<1>2. LockInv BY DEF Init, LockInv, InCritical, MainInCritical
<1>3. ShutdownInv
  BY DEF Init, ShutdownInv, AfterMark, AfterBroadcast, AfterDrain
<1>4. CounterInv
  BY EmptySeq DEF Init, CounterInv, AfterDrain
<1>5. HistoryInv
  <2>1. <<>> \in Seq(Jobs) BY EmptySeq
  <2>2. <<>> \o <<>> \o <<>> = <<>> BY <2>1, ConcatEmptySeq
  <2>3. DOMAIN <<>> = {} BY <2>1, EmptySeq, LenProperties
  <2> QED BY <2>2, <2>3 DEF Init, HistoryInv, NothingLostOrReordered, Adding
<1>6. OwnerInv
  <2>1. DOMAIN taken = {} BY EmptySeq, LenProperties DEF Init
  <2> QED BY <2>1 DEF Init, OwnerInv, OneOwner, Taken, Held
<1>7. WakeInv BY DEF Init, WakeInv
<1> QED BY <1>1, <1>2, <1>3, <1>4, <1>5, <1>6, <1>7 DEF IInv

\* The strengthening is inductive.
LEMMA NextIInv == IInv /\ [Next]_vars => IInv'
BY NextTypeOK, NextLockInv, NextShutdownInv, NextCounterInv, NextHistoryInv,
   NextOwnerInv, NextWakeInv DEF IInv

\* In every reachable state of pool_init, pool_add_worker, thread_routine and
\* pool_destroy the strengthening holds; the theorems below follow from it.
THEOREM Invariance == SafeSpec => []IInv
BY InitIInv, NextIInv, PTL DEF SafeSpec

\* Every state of the pool is well typed; in particular cur_queue_size, an
\* int that thread_routine decrements, never goes below zero.
THEOREM TypeCorrect == SafeSpec => []TypeOK
<1>1. IInv => TypeOK BY DEF IInv
<1> QED BY <1>1, Invariance, PTL

\* No thread dereferences an empty list, and the assertion of pool_add_worker
\* holds, for any number of threads and jobs.
THEOREM HeadAlwaysExists == SafeSpec => []HeadExists
<1>1. ASSUME IInv PROVE HeadExists
  <2> USE <1>1 DEF IInv, TypeOK
  <2>1. ASSUME NEW t \in Threads, pc[t] = "unlink" PROVE queue # <<>>
    <3>1. mainPc \notin AfterDrain
      BY <2>1 DEF ShutdownInv, AfterMark, AfterDrain
    <3>2. cur_queue_size = Len(queue) - 1 BY <2>1, <3>1 DEF CounterInv
    <3> QED BY <3>2, EmptySeq
  <2>2. ASSUME mainPc = "add_count" PROVE queue # <<>>
    <3>1. cur_queue_size = Len(queue) - 1
      BY <2>2 DEF CounterInv, AfterDrain
    <3> QED BY <3>1, EmptySeq
  <2> QED BY <2>1, <2>2 DEF HeadExists
<1> QED BY <1>1, Invariance, PTL

\* cur_queue_size is the length of the list whenever the mutex is free, up to
\* pool_destroy's release of the list.
THEOREM CounterCorrect == SafeSpec => []CounterMatchesList
<1>1. ASSUME IInv PROVE CounterMatchesList
  <2> SUFFICES ASSUME queue_lock = NoThread, dropped = <<>>
               PROVE  cur_queue_size = Len(queue)
    BY DEF CounterMatchesList
  <2>1. mainPc # "add_count" /\ \A t \in Threads : pc[t] # "unlink"
    BY <1>1, PoolAssumption
       DEF IInv, LockInv, InCritical, MainInCritical, PoolAssumption
  <2>2. CASE mainPc \notin AfterDrain
    BY <1>1, <2>1, <2>2 DEF IInv, CounterInv
  <2>3. CASE mainPc \in AfterDrain
    BY <1>1, <2>3, EmptySeq DEF IInv, CounterInv, ShutdownInv
  <2> QED BY <2>2, <2>3
<1> QED BY <1>1, Invariance, PTL

\* No job is lost, duplicated or overtaken, whatever the schedule.
THEOREM JobsConserved == SafeSpec => []NothingLostOrReordered
<1>1. IInv => NothingLostOrReordered BY DEF IInv, HistoryInv
<1> QED BY <1>1, Invariance, PTL

\* A job taken from the list belongs to one thread until it is done.
THEOREM OwnersUnique == SafeSpec => []OneOwner
<1>1. IInv => OneOwner BY DEF IInv, OwnerInv
<1> QED BY <1>1, Invariance, PTL

\* The threads never all sleep on a nonempty list, although
\* pool_add_worker signals after it has released the mutex.
THEOREM WakeupsKept == SafeSpec => []NoLostWakeup
<1>1. ASSUME IInv PROVE NoLostWakeup
  BY <1>1 DEF IInv, WakeInv, NoLostWakeup, Waiting
<1> QED BY <1>1, Invariance, PTL

\* No thread sleeps on the condition variable pool_destroy destroys.
THEOREM NobodySleepsThroughDestroy == SafeSpec => []NoSleeperAfterBroadcast
<1>1. ASSUME IInv PROVE NoSleeperAfterBroadcast
  BY <1>1 DEF IInv, ShutdownInv, AfterBroadcast, NoSleeperAfterBroadcast,
              Waiting
<1> QED BY <1>1, Invariance, PTL

\* Once shutdown is set no thread takes a job from the list any more.
THEOREM TakingStops == SafeSpec => NothingTakenAfterShutdown
<1>1. ASSUME IInv, [Next]_vars, shutdown PROVE taken' = taken
  <2> USE DEF threadVars, history, poolVars, mainVars
  <2>1. ASSUME NEW t \in Threads, ThreadStep(t) PROVE taken' = taken
    <3>1. ~Unlink(t) BY <1>1 DEF IInv, ShutdownInv, Unlink
    <3> QED
      BY <2>1, <3>1 DEF ThreadStep, Lock, FindNothing, Wait, SpuriousWake, Exit,
                        CountDown, Unlock, Process, TouchFreed
  <2>2. ASSUME NEW j \in Jobs, AddWorker(j) PROVE taken' = taken
    BY <2>2 DEF AddWorker
  <2>3. CASE AddStep
    BY <2>3 DEF AddStep, AddLock, AddLink, AddCount, AddUnlock, AddSignal
  <2>4. CASE Destroy BY <2>4 DEF Destroy
  <2>5. CASE DestroyStep
    BY <2>5 DEF DestroyStep, DestroyLock, DestroyMark, DestroyBroadcast,
                DestroyJoin, DestroyDrain, DestroyUnlock, DestroyFree
  <2>6. CASE UNCHANGED vars BY <2>6 DEF vars
  <2> QED BY <1>1, <2>1, <2>2, <2>3, <2>4, <2>5, <2>6 DEF Next
<1>2. IInv /\ [Next]_vars => [shutdown => taken' = taken]_vars
  BY <1>1
<1> QED BY <1>2, Invariance, PTL DEF SafeSpec, NothingTakenAfterShutdown

-----------------------------------------------------------------------------
(***************************************************************************)
(* The pool implements JobPool.                                            *)
(***************************************************************************)

\* While some thread holds no job, fewer jobs than threads are running.
LEMMA RoomForOneMore ==
  ASSUME TypeOK, NEW t \in Threads, worker[t] = NoJob
  PROVE  Cardinality(Held) < Cardinality(Threads)
<1> DEFINE W == {u \in Threads : worker[u] # NoJob}
           f == [u \in W |-> worker[u]]
<1>1. IsFiniteSet(Threads) BY PoolAssumption DEF PoolAssumption
<1>2. /\ IsFiniteSet(Threads \ {t})
      /\ Cardinality(Threads \ {t}) = Cardinality(Threads) - 1
      /\ Cardinality(Threads) \in Nat
  BY <1>1, FS_RemoveElement, FS_CardinalityType
<1>3. W \in SUBSET (Threads \ {t}) OBVIOUS
<1>4. /\ IsFiniteSet(W) /\ Cardinality(W) \in Nat
      /\ Cardinality(W) <= Cardinality(Threads) - 1
  BY <1>2, <1>3, FS_Subset, FS_CardinalityType
<1>5. Held = {worker[u] : u \in W} BY DEF Held
<1>6. f \in Surjection(W, Held) BY <1>5 DEF Surjection
<1> HIDE DEF W, f
<1>7. /\ IsFiniteSet(Held)
      /\ Cardinality(Held) <= Cardinality(W)
  BY <1>4, <1>6, FS_Surjection
<1>8. Cardinality(Held) \in Nat BY <1>7, FS_CardinalityType
<1> QED BY <1>2, <1>4, <1>7, <1>8

\* A job that was never linked is not known to the abstract pool.
LEMMA NewIsUnknown ==
  ASSUME TypeOK, HistoryInv, OwnerInv, dropped = <<>>,
         NEW j, \A i \in DOMAIN added : added[i] # j
  PROVE  ~Abstract!Known(j)
<1>1. added = taken \o queue
  BY ConcatProperties, ConcatEmptySeq
     DEF TypeOK, HistoryInv, NothingLostOrReordered
<1>2. /\ Len(taken) \in Nat /\ Len(queue) \in Nat
      /\ DOMAIN taken = 1 .. Len(taken)
      /\ DOMAIN queue = 1 .. Len(queue)
  BY LenProperties DEF TypeOK
<1>3. /\ DOMAIN added = 1 .. Len(taken) + Len(queue)
      /\ \A i \in 1 .. Len(taken) + Len(queue) :
           added[i] = IF i <= Len(taken) THEN taken[i] ELSE queue[i - Len(taken)]
  BY <1>1, ConcatProperties, LenProperties DEF TypeOK
<1>4. ASSUME NEW i \in DOMAIN queue PROVE queue[i] # j
  <2>1. /\ Len(taken) + i \in DOMAIN added
        /\ added[Len(taken) + i] = queue[i]
    BY <1>2, <1>3
  <2> QED BY <2>1
<1>5. ASSUME NEW i \in DOMAIN taken PROVE taken[i] # j
  <2>1. i \in DOMAIN added /\ added[i] = taken[i] BY <1>2, <1>3
  <2> QED BY <2>1
<1>6. j \notin Held \cup done BY <1>5 DEF OwnerInv, OneOwner, Taken
<1>7. DOMAIN dropped = {} BY EmptySeq, LenProperties
<1> QED BY <1>4, <1>6, <1>7 DEF Abstract!Known

\* Every step of the pool is a step of the abstract pool, or changes nothing
\* that it sees.
LEMMA StepSimulation ==
  ASSUME IInv, [Next]_vars
  PROVE  [Abstract!Next]_(Abstract!vars)
<1> USE DEF IInv, TypeOK, ThreadTo, history, poolVars, mainVars, threadVars
<1>0. ASSUME UNCHANGED <<queue, worker, done, dropped, shutdown>>
      PROVE  UNCHANGED Abstract!vars
  BY <1>0 DEF Abstract!vars, Held
<1>1. ASSUME NEW t \in Threads, ThreadStep(t)
      PROVE  [Abstract!Next]_(Abstract!vars)
  <2>1. CASE Lock(t) BY <2>1, <1>0 DEF Lock
  <2>2. CASE Wait(t) BY <2>2, <1>0 DEF Wait
  <2>10. CASE FindNothing(t) BY <2>10, <1>0 DEF FindNothing
  <2>3. CASE SpuriousWake(t) BY <2>3, <1>0 DEF SpuriousWake
  <2>4. CASE Exit(t) BY <2>4, <1>0 DEF Exit
  <2>5. CASE CountDown(t) BY <2>5, <1>0 DEF CountDown
  <2>6. CASE Unlink(t)
    <3>1. /\ ~shutdown /\ queue # <<>> /\ worker[t] = NoJob
          /\ Held' = Held \cup {Head(queue)}
          /\ done' = done /\ queue' = Tail(queue) /\ dropped' = dropped
          /\ shutdown' = shutdown
      BY <2>6, UnlinkMoves
    <3>2. Cardinality(Held) < Cardinality(Threads) BY <3>1, RoomForOneMore
    <3>3. Abstract!Cardinality(Held) = Cardinality(Held)
      BY DEF Abstract!Cardinality, Cardinality
    <3>4. Abstract!Cardinality(Held) < Cardinality(Threads)
      BY <3>2, <3>3
    <3>5. Abstract!Start BY <3>1, <3>4 DEF Abstract!Start
    <3> QED BY <3>5 DEF Abstract!Next
  <2>7. CASE Unlock(t) BY <2>7, <1>0 DEF Unlock
  <2>8. CASE Process(t)
    <3>1. /\ worker[t] \in Jobs /\ worker[t] \in Held
          /\ Held' = Held \ {worker[t]}
          /\ done' = done \cup {worker[t]}
          /\ UNCHANGED <<queue, dropped, shutdown>>
      BY <2>8, ProcessMoves
    <3>2. Abstract!Finish(worker[t]) BY <3>1 DEF Abstract!Finish
    <3> QED BY <3>1, <3>2 DEF Abstract!Next
  <2>9. CASE TouchFreed(t) BY <2>9, <1>0 DEF TouchFreed
  <2> QED BY <1>1, <2>1, <2>2, <2>3, <2>4, <2>5, <2>6, <2>7, <2>8, <2>9, <2>10
         DEF ThreadStep
<1>2. ASSUME NEW j \in Jobs, AddWorker(j)
      PROVE  [Abstract!Next]_(Abstract!vars)
  BY <1>2, <1>0 DEF AddWorker
<1>3. CASE AddStep
  <2>1. CASE AddLock BY <2>1, <1>0 DEF AddLock
  <2>2. CASE AddLink
    <3>1. /\ newworker \in Jobs /\ ~shutdown
          /\ \A i \in DOMAIN added : added[i] # newworker
          /\ dropped = <<>> /\ dropped' = <<>>
          /\ queue' = Append(queue, newworker)
          /\ UNCHANGED <<worker, done, shutdown>>
      BY <2>2 DEF AddLink, HistoryInv, Adding, ShutdownInv, AfterMark, AfterDrain
    <3>2. ~Abstract!Known(newworker) BY <3>1, NewIsUnknown
    <3>3. Abstract!Submit(newworker)
      BY <3>1, <3>2 DEF Abstract!Submit, Held
    <3> QED BY <3>1, <3>3 DEF Abstract!Next
  <2>3. CASE AddCount BY <2>3, <1>0 DEF AddCount
  <2>4. CASE AddUnlock BY <2>4, <1>0 DEF AddUnlock
  <2>5. CASE AddSignal BY <2>5, <1>0 DEF AddSignal
  <2> QED BY <1>3, <2>1, <2>2, <2>3, <2>4, <2>5 DEF AddStep
<1>4. CASE Destroy BY <1>4, <1>0 DEF Destroy
<1>5. CASE DestroyStep
  <2>1. CASE DestroyLock BY <2>1, <1>0 DEF DestroyLock
  <2>2. CASE DestroyMark
    <3>1. ~shutdown BY <2>2 DEF DestroyMark, ShutdownInv, AfterMark
    <3> QED BY <2>2, <3>1 DEF DestroyMark, Abstract!Close, Abstract!Next, Held
  <2>3. CASE DestroyBroadcast BY <2>3, <1>0 DEF DestroyBroadcast
  <2>4. CASE DestroyJoin BY <2>4, <1>0 DEF DestroyJoin
  <2>5. CASE DestroyDrain
    <3>1. shutdown BY <2>5 DEF DestroyDrain, ShutdownInv, AfterMark
    <3>2. dropped = <<>> BY <2>5 DEF DestroyDrain, ShutdownInv, AfterDrain
    <3>3. Held' = Held BY <2>5 DEF DestroyDrain, Held
    <3>4. CASE queue = <<>>
      BY <2>5, <3>2, <3>3, <3>4 DEF DestroyDrain, Abstract!vars
    <3>5. CASE queue # <<>>
      BY <2>5, <3>1, <3>3, <3>5 DEF DestroyDrain, Abstract!Discard, Abstract!Next
    <3> QED BY <3>4, <3>5
  <2>6. CASE DestroyUnlock BY <2>6, <1>0 DEF DestroyUnlock
  <2>7. CASE DestroyFree BY <2>7, <1>0 DEF DestroyFree
  <2> QED BY <1>5, <2>1, <2>2, <2>3, <2>4, <2>5, <2>6, <2>7 DEF DestroyStep
<1>6. CASE UNCHANGED vars BY <1>6, <1>0 DEF vars
<1> QED BY <1>1, <1>2, <1>3, <1>4, <1>5, <1>6 DEF Next

\* Every behaviour of threads, list and counter is, seen through the mapping
\* of CcThreadPool, a behaviour of the abstract pool.
THEOREM Refinement == SafeSpec => ImplementsJobPoolSafely
<1>1. Init => Abstract!Init
  <2> SUFFICES ASSUME Init PROVE Abstract!Init
    OBVIOUS
  <2>1. DOMAIN dropped = {} BY EmptySeq, LenProperties DEF Init
  <2>2. Held = {} BY DEF Init, Held
  <2> QED BY <2>1, <2>2 DEF Init, Abstract!Init
<1>2. IInv /\ [Next]_vars => [Abstract!Next]_(Abstract!vars)
  BY StepSimulation
<1> QED
  BY <1>1, <1>2, Invariance, PTL
     DEF SafeSpec, ImplementsJobPoolSafely, Abstract!SafeSpec
=============================================================================
