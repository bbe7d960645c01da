--------------------------- MODULE MessageQueue ---------------------------
(***************************************************************************)
(* What the functions of lib/cc_queue.c do to the message queues of a      *)
(* process as their callers see them, without cells and pointers.  A queue *)
(* is first in, first out until it is drained for the first time:          *)
(* dequeue_message frees the last element without bringing queue->tail     *)
(* back to the head, and from then on enqueue_message links its elements   *)
(* where dequeue_message does not look for them: out of reach as a rule,   *)
(* or behind an element of some queue that is in the memory freed, and     *)
(* what was behind that one is lost.  length counts what was enqueued to a *)
(* queue, whatever is in reach.  CcQueue is shown to implement this        *)
(* specification.                                                          *)
(***************************************************************************)
EXTENDS Integers, Sequences

CONSTANTS Queues,  \* the queues
          Msgs,    \* the buffers that may be enqueued
          NULL

\* A queue: the elements reachable from its head, how many more than these its
\* length counts, and whether its tail is elsewhere than at their end.
QueueState == [fifo : Seq(Msgs), stranded : Int, drained : BOOLEAN]

NewQueue == [fifo |-> <<>>, stranded |-> 0, drained |-> FALSE]

Enqueued(q, m) == IF q.drained
                  THEN [q EXCEPT !.stranded = @ + 1]
                  ELSE [q EXCEPT !.fifo = Append(@, m)]

\* What dequeue_message returns, and the queue it leaves.
FirstOf(q) == IF q.fifo = <<>> THEN NULL ELSE Head(q.fifo)

Dequeued(q) == IF q.fifo = <<>>
               THEN q
               ELSE [q EXCEPT !.fifo = Tail(@), !.drained = @ \/ Len(q.fifo) = 1]

LengthOf(q) == Len(q.fifo) + q.stranded

\* A queue into whose list the element of m was put behind the k-th one; after
\* that its tail is at the end, or is not.
Struck(q, k, m, drained) ==
  [fifo |-> Append(SubSeq(q.fifo, 1, k), m),
   stranded |-> LengthOf(q) - (k + 1),
   drained |-> drained]

-----------------------------------------------------------------------------
VARIABLES queue,   \* the queues not deleted yet, and NULL for the others
          output   \* for each queue, what dequeue_message has returned

vars == <<queue, output>>

Init == /\ queue = [q \in Queues |-> NewQueue]
        /\ output = [q \in Queues |-> <<>>]

Enqueue(q, m) ==
  /\ queue[q] # NULL
  /\ queue' = [queue EXCEPT ![q] = Enqueued(@, m)]
  /\ UNCHANGED output

\* The memory the tail points to is an element of some queue: of this one, whose
\* tail is at the end again, or of another one, whose tail may be anywhere.
EnqueueElsewhere(q, m) ==
  /\ queue[q] # NULL
  /\ queue[q].drained
  /\ \E p \in Queues, drained \in BOOLEAN :
       /\ queue[p] # NULL
       /\ p = q => ~drained
       /\ \E k \in 0 .. Len(queue[p].fifo) :
            queue' = [[queue EXCEPT ![q] = Enqueued(@, m)]
                        EXCEPT ![p] = Struck(@, k, m, drained)]
  /\ UNCHANGED output

Dequeue(q) ==
  /\ queue[q] # NULL
  /\ FirstOf(queue[q]) # NULL
  /\ LengthOf(queue[q]) # 0
  /\ queue' = [queue EXCEPT ![q] = Dequeued(@)]
  /\ output' = [output EXCEPT ![q] = Append(@, FirstOf(queue[q]))]

Delete(q) ==
  /\ queue[q] # NULL
  /\ queue' = [queue EXCEPT ![q] = NULL]
  /\ UNCHANGED output

Next == \E q \in Queues : \/ \E m \in Msgs : Enqueue(q, m) \/ EnqueueElsewhere(q, m)
                          \/ Dequeue(q)
                          \/ Delete(q)

Spec == Init /\ [][Next]_vars
=============================================================================
