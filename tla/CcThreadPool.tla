--------------------------- MODULE CcThreadPool ---------------------------
(***************************************************************************)
(* The thread pool of lib/cc_thread_pool.c: worker threads running         *)
(* thread_routine, and the one thread of the process (the select loop of   *)
(* cc_conn_accept, or main of the pool test) that calls pool_add_worker    *)
(* and pool_destroy.  A step is what happens between two points at which   *)
(* another thread could see or change the pool; the critical sections are  *)
(* NOT single steps, so that dropping the lock can be observed.            *)
(***************************************************************************)
EXTENDS Integers, Sequences, FiniteSets

CONSTANTS Threads,     \* the worker threads pool_init creates
          Jobs,        \* the CThread_worker records ever allocated
          Main,        \* the thread that adds workers and destroys the pool
          NoThread,    \* owner of a free mutex
          NoJob,       \* a NULL CThread_worker pointer
          MayDestroy   \* whether Main ever calls pool_destroy

ASSUME PoolAssumption ==
  /\ IsFiniteSet(Threads)
  /\ Threads # {}
  /\ Main \notin Threads
  /\ NoThread \notin Threads \cup {Main}
  /\ NoJob \notin Jobs
  /\ MayDestroy \in BOOLEAN

VARIABLES queue_lock,     \* who holds the mutex
          queue,          \* the list that starts at queue_head
          cur_queue_size,
          shutdown,
          freed,          \* whether pool_destroy has freed the pool
          pc,             \* where each worker thread is
          worker,         \* the local variable of thread_routine
          mainPc,         \* where Main is
          newworker,      \* the local variable of pool_add_worker
          added,          \* history: the jobs linked, in order
          taken,          \* history: the jobs unlinked by threads, in order
          done,           \* history: the jobs processed and freed
          dropped         \* history: the jobs freed by pool_destroy unrun

poolVars == <<queue_lock, queue, cur_queue_size, shutdown, freed>>
threadVars == <<pc, worker>>
mainVars == <<mainPc, newworker>>
history == <<added, taken, done, dropped>>
vars == <<poolVars, threadVars, mainVars, history>>

ThreadStates == {"lock", "test", "wait", "waiting", "relock", "unlink",
                 "unlock", "process", "exited", "wild"}
MainStates == {"idle", "add_lock", "add_link", "add_count", "add_unlock",
               "add_signal", "destroy_lock", "destroy_mark", "destroy_wake",
               "destroy_join", "destroy_drain", "destroy_unlock",
               "destroy_free", "gone"}

TypeOK ==
  /\ queue_lock \in Threads \cup {Main, NoThread}
  /\ queue \in Seq(Jobs)
  /\ cur_queue_size \in Nat
  /\ shutdown \in BOOLEAN
  /\ freed \in BOOLEAN
  /\ pc \in [Threads -> ThreadStates]
  /\ worker \in [Threads -> Jobs \cup {NoJob}]
  /\ mainPc \in MainStates
  /\ newworker \in Jobs \cup {NoJob}
  /\ added \in Seq(Jobs)
  /\ taken \in Seq(Jobs)
  /\ done \in SUBSET Jobs
  /\ dropped \in Seq(Jobs)

\* pool_init, and the creation of the threads.
Init ==
  /\ queue_lock = NoThread
  /\ queue = <<>>
  /\ cur_queue_size = 0
  /\ shutdown = FALSE
  /\ freed = FALSE
  /\ pc = [t \in Threads |-> "lock"]
  /\ worker = [t \in Threads |-> NoJob]
  /\ mainPc = "idle"
  /\ newworker = NoJob
  /\ added = <<>>
  /\ taken = <<>>
  /\ done = {}
  /\ dropped = <<>>

ThreadTo(t, to) == pc' = [pc EXCEPT ![t] = to]
Waiting == {t \in Threads : pc[t] = "waiting"}

-----------------------------------------------------------------------------
(***************************************************************************)
(* thread_routine.                                                         *)
(***************************************************************************)

\* pthread_mutex_lock at the loop's top, and inside pthread_cond_wait on the
\* way out of it; the test of the while loop always follows.
Lock(t) ==
  /\ ~freed
  /\ pc[t] \in {"lock", "relock"}
  /\ queue_lock = NoThread
  /\ queue_lock' = t
  /\ ThreadTo(t, "test")
  /\ UNCHANGED <<queue, cur_queue_size, shutdown, freed, worker, mainVars,
                 history>>

\* The condition of the while loop holds.
FindNothing(t) ==
  /\ ~freed
  /\ pc[t] = "test"
  /\ cur_queue_size = 0
  /\ ~shutdown
  /\ ThreadTo(t, "wait")
  /\ UNCHANGED <<poolVars, worker, mainVars, history>>

\* pthread_cond_wait releases the mutex and starts to wait in one step.
Wait(t) ==
  /\ ~freed
  /\ pc[t] = "wait"
  /\ queue_lock' = NoThread
  /\ ThreadTo(t, "waiting")
  /\ UNCHANGED <<queue, cur_queue_size, shutdown, freed, worker, mainVars,
                 history>>

\* pthread_cond_wait may return without a signal.
SpuriousWake(t) ==
  /\ ~freed
  /\ pc[t] = "waiting"
  /\ ThreadTo(t, "relock")
  /\ UNCHANGED <<poolVars, worker, mainVars, history>>

Exit(t) ==
  /\ ~freed
  /\ pc[t] = "test"
  /\ shutdown
  /\ queue_lock' = NoThread
  /\ ThreadTo(t, "exited")
  /\ UNCHANGED <<queue, cur_queue_size, shutdown, freed, worker, mainVars,
                 history>>

\* Mutation: the thread is not stopped by shutdown.
CountDownIgnoringShutdown(t) ==
  /\ ~freed
  /\ pc[t] = "test"
  /\ cur_queue_size # 0
  /\ cur_queue_size' = cur_queue_size - 1
  /\ ThreadTo(t, "unlink")
  /\ UNCHANGED <<queue_lock, queue, shutdown, freed, worker, mainVars,
                 history>>

\* Mutation: a thread woken without the lock's protection of the test, an "if"
\* in place of the "while" around pthread_cond_wait.
CountDownAfterIf(t) ==
  /\ ~freed
  /\ pc[t] = "test"
  /\ ~shutdown
  /\ cur_queue_size' = cur_queue_size - 1
  /\ ThreadTo(t, "unlink")
  /\ UNCHANGED <<queue_lock, queue, shutdown, freed, worker, mainVars,
                 history>>

CountDown(t) ==
  /\ ~freed
  /\ pc[t] = "test"
  /\ cur_queue_size # 0
  /\ ~shutdown
  /\ cur_queue_size' = cur_queue_size - 1
  /\ ThreadTo(t, "unlink")
  /\ UNCHANGED <<queue_lock, queue, shutdown, freed, worker, mainVars,
                 history>>

\* Mutation: queue_head is read but not advanced.
UnlinkKeepingHead(t) ==
  /\ ~freed
  /\ pc[t] = "unlink"
  /\ queue # <<>>
  /\ worker' = [worker EXCEPT ![t] = Head(queue)]
  /\ taken' = Append(taken, Head(queue))
  /\ ThreadTo(t, "unlock")
  /\ UNCHANGED <<poolVars, mainVars, added, done, dropped>>

\* worker = queue_head; queue_head = worker->next.  With an empty list the
\* read of worker->next would be a NULL dereference: see HeadExists.
Unlink(t) ==
  /\ ~freed
  /\ pc[t] = "unlink"
  /\ queue # <<>>
  /\ worker' = [worker EXCEPT ![t] = Head(queue)]
  /\ queue' = Tail(queue)
  /\ taken' = Append(taken, Head(queue))
  /\ ThreadTo(t, "unlock")
  /\ UNCHANGED <<queue_lock, cur_queue_size, shutdown, freed, mainVars, added,
                 done, dropped>>

Unlock(t) ==
  /\ ~freed
  /\ pc[t] = "unlock"
  /\ queue_lock' = NoThread
  /\ ThreadTo(t, "process")
  /\ UNCHANGED <<queue, cur_queue_size, shutdown, freed, worker, mainVars,
                 history>>

\* The call of worker->process returns and the worker record is freed.
Process(t) ==
  /\ pc[t] = "process"
  /\ done' = done \cup {worker[t]}
  /\ worker' = [worker EXCEPT ![t] = NoJob]
  /\ ThreadTo(t, "lock")
  /\ UNCHANGED <<poolVars, mainVars, added, taken, dropped>>

\* A thread that has not left yet reaches into the freed pool.  What it finds
\* there is undefined: it may still see shutdown set and leave, or block for
\* good or crash.
TouchFreed(t) ==
  /\ freed
  /\ pc[t] \in {"lock", "relock", "test", "wait"}
  /\ \E to \in {"exited", "wild"} : ThreadTo(t, to)
  /\ UNCHANGED <<poolVars, worker, mainVars, history>>

ThreadStep(t) ==
  \/ Lock(t) \/ FindNothing(t) \/ Wait(t) \/ SpuriousWake(t) \/ Exit(t)
  \/ CountDown(t) \/ Unlink(t) \/ Unlock(t) \/ Process(t) \/ TouchFreed(t)

-----------------------------------------------------------------------------
(***************************************************************************)
(* pool_add_worker.                                                        *)
(***************************************************************************)

AddWorker(j) ==
  /\ mainPc = "idle"
  /\ \A i \in DOMAIN added : added[i] # j
  /\ newworker' = j
  /\ mainPc' = "add_lock"
  /\ UNCHANGED <<poolVars, threadVars, history>>

\* Mutation: pool_add_worker does not take the mutex.
AddUnlocked ==
  /\ mainPc = "add_lock"
  /\ mainPc' = "add_link"
  /\ UNCHANGED <<poolVars, newworker, threadVars, history>>

AddLock ==
  /\ mainPc = "add_lock"
  /\ queue_lock = NoThread
  /\ queue_lock' = Main
  /\ mainPc' = "add_link"
  /\ UNCHANGED <<queue, cur_queue_size, shutdown, freed, newworker,
                 threadVars, history>>

\* Mutation: the new job becomes the head of the list.
AddLinkAtHead ==
  /\ mainPc = "add_link"
  /\ queue' = <<newworker>> \o queue
  /\ added' = Append(added, newworker)
  /\ mainPc' = "add_count"
  /\ UNCHANGED <<queue_lock, cur_queue_size, shutdown, freed, newworker,
                 threadVars, taken, done, dropped>>

\* The walk to the last member, or the assignment of queue_head.
AddLink ==
  /\ mainPc = "add_link"
  /\ queue' = Append(queue, newworker)
  /\ added' = Append(added, newworker)
  /\ mainPc' = "add_count"
  /\ UNCHANGED <<queue_lock, cur_queue_size, shutdown, freed, newworker,
                 threadVars, taken, done, dropped>>

\* The assertion, and cur_queue_size++.
AddCount ==
  /\ mainPc = "add_count"
  /\ cur_queue_size' = cur_queue_size + 1
  /\ mainPc' = "add_unlock"
  /\ UNCHANGED <<queue_lock, queue, shutdown, freed, newworker, threadVars,
                 history>>

AddUnlock ==
  /\ mainPc = "add_unlock"
  /\ queue_lock' = NoThread
  /\ mainPc' = "add_signal"
  /\ UNCHANGED <<queue, cur_queue_size, shutdown, freed, newworker,
                 threadVars, history>>

\* Mutation: the signal is left out.
AddNoSignal ==
  /\ mainPc = "add_signal"
  /\ mainPc' = "idle"
  /\ newworker' = NoJob
  /\ UNCHANGED <<poolVars, threadVars, history>>

\* pthread_cond_signal, after the unlock: wakes one waiting thread if any is.
AddSignal ==
  /\ mainPc = "add_signal"
  /\ \/ Waiting = {} /\ UNCHANGED pc
     \/ \E t \in Waiting : ThreadTo(t, "relock")
  /\ mainPc' = "idle"
  /\ newworker' = NoJob
  /\ UNCHANGED <<poolVars, worker, history>>

-----------------------------------------------------------------------------
(***************************************************************************)
(* pool_destroy.                                                           *)
(***************************************************************************)

\* The test of shutdown at the top: Main calls pool_destroy once, so shutdown
\* is not yet set and the early return is never taken.
Destroy ==
  /\ MayDestroy
  /\ mainPc = "idle"
  /\ ~shutdown
  /\ mainPc' = "destroy_lock"
  /\ UNCHANGED <<poolVars, newworker, threadVars, history>>

\* Mutation: shutdown is set without the mutex.
DestroyUnlocked ==
  /\ mainPc = "destroy_lock"
  /\ mainPc' = "destroy_mark"
  /\ UNCHANGED <<poolVars, newworker, threadVars, history>>

DestroyLock ==
  /\ mainPc = "destroy_lock"
  /\ queue_lock = NoThread
  /\ queue_lock' = Main
  /\ mainPc' = "destroy_mark"
  /\ UNCHANGED <<queue, cur_queue_size, shutdown, freed, newworker,
                 threadVars, history>>

DestroyMark ==
  /\ mainPc = "destroy_mark"
  /\ shutdown' = TRUE
  /\ mainPc' = "destroy_wake"
  /\ UNCHANGED <<queue_lock, queue, cur_queue_size, freed, newworker,
                 threadVars, history>>

\* pthread_cond_broadcast.
DestroyBroadcast ==
  /\ mainPc = "destroy_wake"
  /\ pc' = [t \in Threads |-> IF t \in Waiting THEN "relock" ELSE pc[t]]
  /\ mainPc' = "destroy_join"
  /\ UNCHANGED <<poolVars, newworker, worker, history>>

\* Mutation: the threads are created joinable, and pthread_join waits.
DestroyJoinWaiting ==
  /\ mainPc = "destroy_join"
  /\ \A t \in Threads : pc[t] = "exited"
  /\ mainPc' = "destroy_drain"
  /\ UNCHANGED <<poolVars, newworker, threadVars, history>>

\* pthread_join on every thread, with the mutex held.  The threads were
\* created detached (and detach themselves): each call fails at once.
DestroyJoin ==
  /\ mainPc = "destroy_join"
  /\ mainPc' = "destroy_drain"
  /\ UNCHANGED <<poolVars, newworker, threadVars, history>>

\* Every record left in the list is freed; cur_queue_size is not touched.
DestroyDrain ==
  /\ mainPc = "destroy_drain"
  /\ dropped' = queue
  /\ queue' = <<>>
  /\ mainPc' = "destroy_unlock"
  /\ UNCHANGED <<queue_lock, cur_queue_size, shutdown, freed, newworker,
                 threadVars, added, taken, done>>

DestroyUnlock ==
  /\ mainPc = "destroy_unlock"
  /\ queue_lock' = NoThread
  /\ mainPc' = "destroy_free"
  /\ UNCHANGED <<queue, cur_queue_size, shutdown, freed, newworker,
                 threadVars, history>>

\* The mutex and the condition variable are destroyed and the pool freed,
\* whoever may still be using them.
DestroyFree ==
  /\ mainPc = "destroy_free"
  /\ freed' = TRUE
  /\ mainPc' = "gone"
  /\ UNCHANGED <<queue_lock, queue, cur_queue_size, shutdown, newworker,
                 threadVars, history>>

AddStep == AddLock \/ AddLink \/ AddCount \/ AddUnlock \/ AddSignal
DestroyStep == \/ DestroyLock \/ DestroyMark \/ DestroyBroadcast
               \/ DestroyJoin \/ DestroyDrain \/ DestroyUnlock \/ DestroyFree

Next ==
  \/ \E t \in Threads : ThreadStep(t)
  \/ \E j \in Jobs : AddWorker(j)
  \/ AddStep
  \/ Destroy
  \/ DestroyStep

-----------------------------------------------------------------------------
(***************************************************************************)
(* Fairness: every thread keeps running, a job's process function returns, *)
(* and a thread that asks for the mutex again and again gets it.  Nobody   *)
(* is obliged to add a job, to destroy the pool, or to wake spuriously.    *)
(***************************************************************************)
Fairness ==
  /\ \A t \in Threads :
       /\ WF_vars(FindNothing(t) \/ Wait(t) \/ Exit(t) \/ CountDown(t)
                  \/ Unlink(t) \/ Unlock(t) \/ Process(t) \/ TouchFreed(t))
       /\ SF_vars(Lock(t))
  /\ WF_vars(AddLink \/ AddCount \/ AddUnlock \/ AddSignal)
  /\ WF_vars(DestroyMark \/ DestroyBroadcast \/ DestroyJoin \/ DestroyDrain
             \/ DestroyUnlock \/ DestroyFree)
  /\ SF_vars(AddLock)
  /\ SF_vars(DestroyLock)

SafeSpec == Init /\ [][Next]_vars
Spec == SafeSpec /\ Fairness

-----------------------------------------------------------------------------
(***************************************************************************)
(* Safety.                                                                 *)
(***************************************************************************)
InCritical(t) == pc[t] \in {"test", "wait", "unlink", "unlock"}
MainInCritical == mainPc \in {"add_link", "add_count", "add_unlock",
                              "destroy_mark", "destroy_wake", "destroy_join",
                              "destroy_drain", "destroy_unlock"}

\* No thread follows a NULL queue_head (thread_routine reads worker->next
\* without a test, trusting cur_queue_size), and the assertion of
\* pool_add_worker holds when it is evaluated.
HeadExists ==
  /\ \A t \in Threads : pc[t] = "unlink" => queue # <<>>
  /\ mainPc = "add_count" => queue # <<>>

\* Whenever the mutex is free, cur_queue_size is the length of the list -
\* until pool_destroy has freed the list without resetting the counter.
CounterMatchesList ==
  queue_lock = NoThread /\ dropped = <<>> => cur_queue_size = Len(queue)

\* The jobs the threads took, then the ones still listed, then the ones
\* pool_destroy freed are the jobs that were added, in the same order: none is
\* lost, taken twice or overtaken.
NothingLostOrReordered == added = taken \o queue \o dropped

Taken == {taken[i] : i \in DOMAIN taken}
Held == {worker[t] : t \in Threads} \ {NoJob}

\* A job that left the list is being processed by one thread or has been
\* processed and freed; no job is both, or with two threads.
OneOwner ==
  /\ Taken = Held \cup done
  /\ Held \cap done = {}
  /\ \A t, u \in Threads : worker[t] = worker[u] /\ worker[t] # NoJob => t = u

\* Jobs wait in the list while every thread sleeps only in the moment between
\* the counter's increment and the signal that follows it (the signal is sent
\* after the unlock, and the list may hold jobs nobody was signalled for).
NoLostWakeup ==
  cur_queue_size > 0 /\ mainPc \notin {"add_unlock", "add_signal"} /\ ~shutdown
    => Waiting # Threads

\* Once pool_destroy has broadcast, no thread sleeps on the condition variable
\* it is about to destroy.
NoSleeperAfterBroadcast ==
  mainPc \in {"destroy_join", "destroy_drain", "destroy_unlock",
              "destroy_free", "gone"} => Waiting = {}

\* After shutdown is set no thread takes another job.
NothingTakenAfterShutdown == [][shutdown => taken' = taken]_vars

-----------------------------------------------------------------------------
(***************************************************************************)
(* Liveness and refinement.                                                *)
(***************************************************************************)

\* Every job added is processed, unless the pool is shut down first.
EveryJobProcessed ==
  \A j \in Jobs : (\E i \in DOMAIN added : added[i] = j)
                    ~> (j \in done \/ shutdown)

\* pool_destroy returns, although it calls pthread_join with the mutex held.
DestroyReturns == (mainPc = "destroy_lock") ~> freed

\* Every thread leaves thread_routine after shutdown, or is caught in the
\* freed pool; none keeps sleeping or working.
ThreadsLeave ==
  shutdown ~> [](\A t \in Threads : pc[t] \in {"exited", "wild"})

\* The threads, the list and the counter implement the abstract pool.
Abstract == INSTANCE JobPool WITH
  Workers <- Cardinality(Threads),
  pending <- queue,
  running <- Held,
  finished <- done,
  discarded <- {dropped[i] : i \in DOMAIN dropped},
  closed <- shutdown

ImplementsJobPool == Abstract!Spec
ImplementsJobPoolSafely == Abstract!SafeSpec
=============================================================================
