------------------------------ MODULE JobPool ------------------------------
(***************************************************************************)
(* What the thread pool of lib/cc_thread_pool.c promises its user, without *)
(* threads, lock or condition variable: jobs are started in the order they *)
(* were submitted, at most Workers of them at a time, each of them once,   *)
(* and none any more once the pool is closed.  CcThreadPool is shown to    *)
(* implement this specification.                                           *)
(***************************************************************************)
EXTENDS Naturals, Sequences, FiniteSets

CONSTANTS Jobs,     \* the jobs that may be submitted, each at most once
          Workers   \* how many jobs may run at the same time

VARIABLES pending,   \* the jobs submitted and not yet started, in order
          running,   \* the jobs being processed
          finished,  \* the jobs processed to the end
          discarded, \* the jobs thrown away when the pool was closed
          closed     \* whether the pool has been closed

vars == <<pending, running, finished, discarded, closed>>

Known(j) == \/ \E i \in DOMAIN pending : pending[i] = j
            \/ j \in running \cup finished \cup discarded

Init == /\ pending = <<>>
        /\ running = {}
        /\ finished = {}
        /\ discarded = {}
        /\ closed = FALSE

Submit(j) == /\ ~closed
             /\ ~Known(j)
             /\ pending' = Append(pending, j)
             /\ UNCHANGED <<running, finished, discarded, closed>>

Start == /\ ~closed
         /\ pending # <<>>
         /\ Cardinality(running) < Workers
         /\ running' = running \cup {Head(pending)}
         /\ pending' = Tail(pending)
         /\ UNCHANGED <<finished, discarded, closed>>

Finish(j) == /\ j \in running
             /\ running' = running \ {j}
             /\ finished' = finished \cup {j}
             /\ UNCHANGED <<pending, discarded, closed>>

Close == /\ ~closed
         /\ closed' = TRUE
         /\ UNCHANGED <<pending, running, finished, discarded>>

Discard == /\ closed
           /\ pending # <<>>
           /\ discarded' = {pending[i] : i \in DOMAIN pending}
           /\ pending' = <<>>
           /\ UNCHANGED <<running, finished, closed>>

Next == \/ \E j \in Jobs : Submit(j) \/ Finish(j)
        \/ Start
        \/ Close
        \/ Discard

\* The pool keeps starting what is pending and finishing what is running;
\* nobody is obliged to submit or to close.
Fairness == /\ WF_vars(Start)
            /\ \A j \in Jobs : WF_vars(Finish(j))

SafeSpec == Init /\ [][Next]_vars
Spec == SafeSpec /\ Fairness
=============================================================================
