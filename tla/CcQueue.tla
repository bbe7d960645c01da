------------------------------ MODULE CcQueue ------------------------------
(***************************************************************************)
(* The message queues of lib/cc_queue.c: singly linked lists of malloc'ed  *)
(* elements behind a dummy head, with a tail pointer, a length and a       *)
(* mutex.  Every function holds the mutex from its first to its last line, *)
(* so each is one step.  The heap is modelled as far as the pointers can   *)
(* go wrong in it: cells of the size of a message_queue_element, which     *)
(* malloc may hand out again after free, to the same queue, to the other   *)
(* queue of the connection or to others (a CThread_worker is of the same   *)
(* size).                                                                  *)
(***************************************************************************)
EXTENDS Integers, Sequences, FiniteSets, Functions

CONSTANTS Queues,  \* the queues that exist
          Cells,   \* the heap cells of the size of an element
          Msgs,    \* the buffers that are enqueued, each at most once
          NULL

ASSUME QueueAssumption == NULL \notin Cells \cup Msgs

VARIABLES head, tail,  \* the two pointers of each queue
          length,
          held,        \* the queues whose mutex is never released again
          next, data,  \* the contents of the cells, freed ones included
          allocated,   \* the cells malloc has handed out
          foreign,     \* those of them that do not belong to a queue
          chain,       \* auxiliary: the cells on the way from head to NULL
          sent,        \* history: the buffers enqueued
          output,      \* history: the buffers dequeue_message returned
          turn, turns, \* history: when a buffer was enqueued, 0 if it was not,
                       \* and how many were
          struck       \* history: the queues in whose list an enqueue to
                       \* another one has put its element

pointers == <<head, tail, length, held>>
history == <<sent, turn, turns, struck>>
vars == <<pointers, next, data, allocated, foreign, chain, output, history>>

TypeOK ==
  /\ head \in [Queues -> Cells]
  /\ tail \in [Queues -> Cells]
  /\ length \in [Queues -> Nat]
  /\ held \in SUBSET Queues
  /\ next \in [Cells -> Cells \cup {NULL}]
  /\ data \in [Cells -> Msgs \cup {NULL}]
  /\ allocated \in SUBSET Cells
  /\ foreign \in SUBSET allocated
  /\ chain \in [Queues -> Seq(Cells)]
  /\ sent \in [Queues -> Seq(Msgs)]
  /\ output \in [Queues -> Seq(Msgs)]
  /\ turn \in [Msgs -> 0 .. turns]
  /\ turns \in Nat
  /\ struck \in SUBSET Queues

\* create_message_queue.  Malloc'ed memory is not cleared, but no field of a
\* cell is read before it is written, so that NULL will do.
Init ==
  /\ head \in Injection(Queues, Cells)
  /\ tail = head
  /\ length = [q \in Queues |-> 0]
  /\ held = {}
  /\ next = [c \in Cells |-> NULL]
  /\ data = [c \in Cells |-> NULL]
  /\ allocated = {head[q] : q \in Queues}
  /\ foreign = {}
  /\ chain = [q \in Queues |-> <<>>]
  /\ sent = [q \in Queues |-> <<>>]
  /\ output = [q \in Queues |-> <<>>]
  /\ turn = [m \in Msgs |-> 0]
  /\ turns = 0
  /\ struck = {}

\* The i-th cell on the way from the head, the head being the 0-th; all of
\* them, and the last one.
CellAt(q, i) == IF i = 0 THEN head[q] ELSE chain[q][i]
CellsOf(q) == {CellAt(q, i) : i \in 0 .. Len(chain[q])}
LastCell(q) == CellAt(q, Len(chain[q]))

Contents(q) == [i \in 1 .. Len(chain[q]) |-> data[chain[q][i]]]

\* What was dequeued, followed by what still can be.
Delivered(q) == output[q] \o Contents(q)

Unsent(m) == turn[m] = 0

\* The way from the head of a queue once the cell t points to the new cell c:
\* when t is on it, what was behind t is no more.
Linked(q, t, c) ==
  IF q \in held \/ t \notin CellsOf(q)
  THEN chain[q]
  ELSE LET i == CHOOSE i \in 0 .. Len(chain[q]) : CellAt(q, i) = t
       IN  Append(SubSeq(chain[q], 1, i), c)

\* The history of an enqueue.
Enqueued(q, m) ==
  /\ sent' = [sent EXCEPT ![q] = Append(@, m)]
  /\ turns' = turns + 1
  /\ turn' = [turn EXCEPT ![m] = turns + 1]
  /\ struck' = struck \cup {p \in Queues \ (held \cup {q}) : tail[q] \in CellsOf(p)}

-----------------------------------------------------------------------------
\* Mutation: the new element becomes the first one.
EnqueueFirst(q, m) ==
  /\ q \notin held
  /\ Unsent(m)
  /\ \E c \in Cells \ allocated :
       /\ data' = [data EXCEPT ![c] = m]
       /\ next' = [next EXCEPT ![c] = next[head[q]], ![head[q]] = c]
       /\ allocated' = allocated \cup {c}
       /\ chain' = [chain EXCEPT ![q] = <<c>> \o @]
       /\ tail' = [tail EXCEPT ![q] = IF chain[q] = <<>> THEN c ELSE @]
  /\ length' = [length EXCEPT ![q] = @ + 1]
  /\ Enqueued(q, m)
  /\ UNCHANGED <<head, held, foreign, output>>

\* enqueue_message.  queue->tail->next is written wherever the tail points: to
\* the last element; to a freed cell; to a cell that malloc has handed out again
\* since, which may be the new element itself, or be in the list of either
\* queue.
Enqueue(q, m) ==
  /\ q \notin held
  /\ Unsent(m)
  /\ \E c \in Cells \ allocated :
       /\ data' = [data EXCEPT ![c] = m]
       /\ next' = [next EXCEPT ![c] = NULL, ![tail[q]] = c]
       /\ allocated' = allocated \cup {c}
       /\ chain' = [p \in Queues |-> Linked(p, tail[q], c)]
       /\ tail' = [tail EXCEPT ![q] = c]
  /\ length' = [length EXCEPT ![q] = @ + 1]
  /\ Enqueued(q, m)
  /\ UNCHANGED <<head, held, foreign, output>>

\* Mutation: the element is freed but not unlinked.
DequeueLinked(q) ==
  /\ q \notin held
  /\ next[head[q]] # NULL
  /\ length[q] # 0
  /\ LET e == next[head[q]] IN
       /\ output' = [output EXCEPT ![q] = Append(@, data[e])]
       /\ allocated' = allocated \ {e}
  /\ length' = [length EXCEPT ![q] = @ - 1]
  /\ chain' = [chain EXCEPT ![q] = Tail(@)]
  /\ UNCHANGED <<head, tail, held, next, data, foreign, history>>

\* Mutation: length is decremented before anything is looked at.
DequeueIgnoringLength(q) ==
  /\ q \notin held
  /\ length' = [length EXCEPT ![q] = @ - 1]
  /\ IF next[head[q]] = NULL
     THEN UNCHANGED <<next, output, allocated, chain>>
     ELSE LET e == next[head[q]] IN
          /\ next' = [next EXCEPT ![head[q]] = next[e], ![e] = NULL]
          /\ output' = [output EXCEPT ![q] = Append(@, data[e])]
          /\ allocated' = allocated \ {e}
          /\ chain' = [chain EXCEPT ![q] = Tail(@)]
  /\ UNCHANGED <<head, tail, held, data, foreign, history>>

\* dequeue_message when it returns a buffer; when head->next is NULL or
\* length is 0 it changes nothing.  The element is freed, the tail left alone.
Dequeue(q) ==
  /\ q \notin held
  /\ next[head[q]] # NULL
  /\ length[q] # 0
  /\ LET e == next[head[q]] IN
       /\ next' = [next EXCEPT ![head[q]] = next[e], ![e] = NULL]
       /\ output' = [output EXCEPT ![q] = Append(@, data[e])]
       /\ allocated' = allocated \ {e}
  /\ length' = [length EXCEPT ![q] = @ - 1]
  /\ chain' = [chain EXCEPT ![q] = Tail(@)]
  /\ UNCHANGED <<head, tail, held, data, foreign, history>>

\* Mutation: the mutex is released although the head is gone.
DeleteUnlocking(q) ==
  /\ q \notin held
  /\ next' = [next EXCEPT ![head[q]] = NULL]
  /\ allocated' = allocated \ CellsOf(q)
  /\ chain' = [chain EXCEPT ![q] = <<>>]
  /\ UNCHANGED <<pointers, data, foreign, output, history>>

\* delete_message_queue: the elements are unlinked and freed, then the head;
\* the function returns with the mutex locked, and the statements that follow
\* are not reached.
Delete(q) ==
  /\ q \notin held
  /\ next' = [next EXCEPT ![head[q]] = NULL]
  /\ allocated' = allocated \ CellsOf(q)
  /\ chain' = [chain EXCEPT ![q] = <<>>]
  /\ held' = held \cup {q}
  /\ UNCHANGED <<head, tail, length, data, foreign, output, history>>

\* Other code of the process allocates and frees cells of the same size.
AllocateForeign(c) ==
  /\ c \in Cells \ allocated
  /\ allocated' = allocated \cup {c}
  /\ foreign' = foreign \cup {c}
  /\ UNCHANGED <<pointers, next, data, chain, output, history>>

FreeForeign(c) ==
  /\ c \in foreign
  /\ allocated' = allocated \ {c}
  /\ foreign' = foreign \ {c}
  /\ UNCHANGED <<pointers, next, data, chain, output, history>>

Next == \/ \E q \in Queues : \/ \E m \in Msgs : Enqueue(q, m)
                             \/ Dequeue(q)
                             \/ Delete(q)
        \/ \E c \in Cells : AllocateForeign(c) \/ FreeForeign(c)

Spec == Init /\ [][Next]_vars

-----------------------------------------------------------------------------
(***************************************************************************)
(* Properties.                                                             *)
(***************************************************************************)

\* For whoever can still get the mutex, the list that starts at the head is
\* made of different allocated cells that only this list holds, and it ends.
\* Enqueues write through tails that point to freed cells and to cells of the
\* other queue's list: they cut lists off, but never join two, close a ring or
\* leave one that leads to memory that is not a queue's.
ListWellFormed ==
  \A q \in Queues \ held :
    /\ \A i \in 0 .. Len(chain[q]) :
         /\ CellAt(q, i) \in allocated \ foreign
         /\ next[CellAt(q, i)] = IF i = Len(chain[q]) THEN NULL
                                                      ELSE CellAt(q, i + 1)
         /\ \A k \in 0 .. Len(chain[q]) : CellAt(q, i) = CellAt(q, k) => i = k
    /\ \A p \in Queues \ (held \cup {q}) : CellsOf(p) \cap CellsOf(q) = {}

\* Whatever enqueues have cut off, no buffer is delivered twice or by two queues
\* (each would be freed twice), and each queue delivers in the order in which
\* its buffers were enqueued, though some may be another queue's.  A queue whose
\* list no other has written to delivers where its own sequence begins.
DeliveredInOrder ==
  /\ \A q \in Queues : \A i, j \in DOMAIN Delivered(q) :
       i < j => turn[Delivered(q)[i]] < turn[Delivered(q)[j]]
  /\ \A p, q \in Queues : p # q =>
       \A i \in DOMAIN Delivered(p), j \in DOMAIN Delivered(q) :
         Delivered(p)[i] # Delivered(q)[j]
  /\ \A q \in Queues \ struck : \A i \in DOMAIN Delivered(q) :
       i <= Len(sent[q]) /\ Delivered(q)[i] = sent[q][i]

\* The number of buffers that can be dequeued is length, as
\* test/test_queue/test_cc_queue.c takes for granted when it dequeues length
\* times and reads from every buffer it gets.
LengthCanBeDequeued ==
  \A q \in Queues \ held : length[q] = Len(chain[q])

\* The pointers implement the queue that callers see.
Seen == INSTANCE MessageQueue WITH
  queue <- [q \in Queues |->
              IF q \in held THEN NULL
              ELSE [fifo |-> Contents(q),
                    stranded |-> length[q] - Len(chain[q]),
                    drained |-> tail[q] # LastCell(q)]]

\* A deleted queue is not mistaken for another.
ASSUME NullAssumption == NULL \notin Seen!QueueState

ImplementsMessageQueue == Seen!Spec
=============================================================================
