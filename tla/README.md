# The OpenFlow controller in TLA+

TLA+ models of the C controller in this repository, the TLC runs that check
them on small instances, and TLAPS proofs about all but the transaction
identifiers for every value of the constants. Paths and line numbers are those of the repository.

1. [The system](#1-the-system): parts, state, operations, what is hard, what makes each part correct
2. [The modules](#2-the-modules) and how they correspond to the code
3. [What the runs check](#3-what-the-runs-check), bounds, fairness
4. [What is proved](#4-what-is-proved)
5. [Disagreements found](#5-disagreements-found) between the code and what the repository says of it
6. [What is not modelled](#6-what-is-not-modelled)
7. [Plan](#7-plan)

## 1. The system

The controller is a listening process (`src/cc_main.c`, `lib/cc_init_of.c`)
that forks one process for each switch that connects. Such a child owns one
secure channel. Its main thread selects on the connection, reads messages and
writes what is queued; the threads of a pool handle what was read and queue the
answers.

    switch --connect--> listening process --fork--> child of the switch
                          ^  SIGCHLD                  |
                          +---------------------------+
    child:  read --> recv_queue --> trans_info (a job) --> thread pool
                                                              | handler:
                                                              |  validate, look up
                                                              v  the xid, answer
            write <-- send_queue <----------------------- reply / cc_send_...

| part | source | state | operations |
|---|---|---|---|
| thread pool | `lib/cc_thread_pool.c` | mutex, condition variable, list of workers, `cur_queue_size`, `shutdown` | `pool_init`, `pool_add_worker`, `pool_destroy`, `thread_routine` |
| message queue | `lib/cc_queue.c` | list with a dummy head, `tail`, `length`, mutex | create, enqueue, dequeue, delete, foreach |
| secure channel | `lib/cc_secure_channel_recv.c`, `_send.c`, `lib/cc_of_msg_handler.c`, the child's loop in `lib/cc_init_of.c` | the two queues, the `trans_info` of each job, the flush counter | read, hand to the pool, flush, tear down |
| handlers, senders | `lib/cc_of_msg_recv.c`, `lib/cc_of_msg_send.c` | `*xid_latest`, which all of them read and write | one handler for each OpenFlow type; `cc_send_...` |
| listener | `lib/cc_init_of.c`, `src/cc_main.c` | descriptors, children, the pending signal | listen, poll, accept, fork, `sig_child` |
| validation | `lib/cc_of_msg_check.c` | offsets and lengths on 16 bits during a walk | one validator for each type, the table of errors |
| hash table | `lib/cc_hash_table.c`, `lib/cc_double_link.c` | buckets, the list of those that are not empty | insert, lookup, delete, foreach, iterator |
| transaction ids | `lib/cc_xid.c`, `lib/cc_single_link.c` | a counter; each entry in a hash table and in a list | generate, insert, look up, delete, finalise |
| buffers | `lib/cc_buffer.c` | data pointer, length, top | allocate, append, remove, free |
| message creation | `lib/cc_of_msg_create.c`, `include/openflow.h` | the message being filled, with its length on 16 bits | one function for each type |
| byte order | `lib/cc_byte_order.c` | the structure being converted, the place in a list | one conversion for each structure, both ways; loops over actions and properties |
| timer, utilities, log | `lib/cc_timer.c`, `lib/cc_utility.c`, `lib/cc_log.c` | none | formatting, time |

How the parts touch each other:

- the main thread of a child and the pool's threads share the two queues (each
  with a mutex of its own), the pool (one mutex, one condition variable), and
  `xid_latest` and the hash tables of the transaction ids (no lock of their own);
- a job is a `trans_info`, created by the main thread from the head of
  `recv_queue`, freed by the thread that handled it;
- listening process and children share descriptors at the moment of the fork,
  and nothing after it but SIGCHLD;
- `foreach_hash` calls back into the table it walks, under a recursive mutex.

What is hard here, and what makes each part correct:

| part | hard | correct when |
|---|---|---|
| pool | the signal is sent after the unlock; list and counter are updated apart; the pool is destroyed under its threads | jobs are run once each, in order, none is slept through; nobody sleeps on a condition variable about to be destroyed; `pool_destroy` comes back |
| queue | a tail that is left at a freed element, which malloc may hand out again | what comes out is what went in, in order, and the reachable list is never damaged |
| channel | a job takes the head of the queue, not what was just read; partial and failed writes; a teardown under working threads | a job has its own message; the wire has the queue's order; the teardown ends |
| listener | who holds which descriptor after a fork; a signal that stands for several children | nobody holds the connection of another; every child is reaped; children do not accept |
| validation | lengths from the wire, arithmetic on 16 bits, loops that end only if the lengths let them | what is accepted is whole and adds up; only nameable lengths keep a thread; each error has an answer |
| handlers | validator, lookup, creation, queue and application queue can each fail; other threads and a teardown in between | one step of the channel each; the message freed once; the handler ends |
| creation, byte order | the same layout stated three times: written, validated, converted; loops that go by 16-bit lengths | nothing is written behind the message; what is made is accepted; what is accepted is read as it was meant |
| hash table | pointers kept across a callback that deletes | the table is a map; a walk visits each key once and keeps no dangling pointer |
| transaction ids | one entry in two containers, found in two ways | both containers lose the same entry |

`PROJECT.json` lists each hazard with its line and the properties about it.

### The commit the models are of

The repository is in the middle of a change and parts of it do not compile. The
models take the reading that the surrounding code leaves no choice about:

- `cc_ofpmsg_handle` dequeues from `trans_info->recv_queue`
  (`lib/cc_of_msg_recv.c:70`), a field `trans_info_t` no longer has; it has the
  buffer `recv_buf`, which `create_trans_info` fills. The model hands `recv_buf`
  to the handler.
- `cc_secure_channel_read` ends with a call of `cc_ofpmsg_handle` with two
  arguments it no longer takes (`lib/cc_secure_channel_recv.c:206`). The call
  that counts is the one from the pool; this one is left out.
- `xid_latest` is a value in `trans_info_t` and dereferenced as a pointer by
  the handlers; they are taken to mean the counter of the connection, which the
  senders use too (`latest` in `CcSession`).
- `cc_recv_hello_msg` looks at `recv_buf->data` (`lib/cc_of_msg_recv.c:147`) where
  the other handlers have `recv_data`; the message is meant.
- The senders below `lib/cc_of_msg_send.c:166` use variables nobody declares or
  sets, and are not modelled. Those above it take the 0 of
  `cc_insert_to_send_queue` for an error (95, 113, 141), which only changes
  what they return; three of them (echo request, echo reply, error) make their message from a buffer
  they have not set.
- In `lib/cc_of_msg_create.c` a few lines are read as the functions around them
  are: `return buffer;` at the end of `cc_create_header` (76), where `buf` is meant,
  `body->data` (151), a stray line (557), the `ETH_...` constants nobody
  defines (the smallest frame, `MinFrame`), `get_actions_length` from outside the repository.
- `lib/cc_queue.c` lacks two semicolons (83, 101), and `delete_message_queue` has two
  `if` with an `else` (91, 97) whose statements are not in braces: it is modelled to return at 95, as it is
  written, with the mutex held, and nothing behind that is reached.
- `append_back_buffer` on an empty buffer allocates into its own parameter
  (`lib/cc_buffer.c`); the models take it at its word, as every caller does.

Behaviour that follows from the code as it stands and may surprise a reader:
`cc_lookup_xid_entry` returns NULL whether it finds the entry or not, so that
replies which need their request are freed and forgotten (the kind `"silent"`
in `CcSecureChannel`), and entries are never deleted by a handler;
`cc_insert_to_app_queue` is a stub that frees the buffer and fails, after which
the handler frees it again (`HandleUndefined`); and because the first message of a
connection drains its receive queue, every later job gets, as a rule, a NULL buffer (finding 1),
which its handler dereferences.

## 2. The modules

Each component is a module with its state, `Init`, one action for each
operation (or for each step that another thread can observe) and its
properties. `MC...` modules only add what TLC needs. A definition introduced by
a comment "Mutation:" is a plausible mistake; it is used by no specification
and serves to show that a property would notice it.

| module | models | uses |
|---|---|---|
| `JobPool` | what a pool promises, without threads or lock | |
| `CcThreadPool` | `lib/cc_thread_pool.c` | implements `JobPool` |
| `MessageQueue` | what callers see of a queue, as it is | |
| `CcQueue` | `lib/cc_queue.c`, cells and pointers | implements `MessageQueue` |
| `CcSecureChannel` | the process of one switch | operators of `MessageQueue`, actions of `JobPool` |
| `CcSession` | the handlers and senders of that process, step by step | implements `CcSecureChannel` |
| `CcListener` | the listening process, its children's descriptors, SIGCHLD | |
| `OpenFlow` | the structures of `include/openflow.h`, their sizes | |
| `CcByteOrder` | `lib/cc_byte_order.c` | `OpenFlow` |
| `CcMsgCreate` | `lib/cc_of_msg_create.c` | `CcByteOrder` |
| `CcMsgCheck` | `lib/cc_of_msg_check.c` and the handlers' choice of validator | |
| `CcMsgWire` | a message from its creator over its validator to its reader | `CcMsgCreate`, `CcMsgCheck` |
| `KeyedTable` | a map | |
| `CcHashTable` | `lib/cc_hash_table.c` over lists | implements `KeyedTable` |
| `CcXidTable` | `lib/cc_xid.c` with the list functions it calls | operators of `KeyedTable` |
| `CcThreadPoolProofs`, `CcQueueProofs`, `CcSecureChannelProofs`, `CcListenerProofs`, `CcSessionProofs`, `CcHashTableProofs`, `CcMsgCheckProofs`, `CcMsgWireProofs` | proofs about the module of that name | |

The chain of implementations is what makes the composition honest:
`CcSecureChannel` is built on the abstract queue and pool, and the runs `queues`
and `pool` (and, for safety, proofs) show that the C code of both implements
them - oddities included: what is enqueued to a `MessageQueue` after a
draining is out of reach, or cuts off another list, because `lib/cc_queue.c` does that. `CcSession` in turn shows that the
handlers, a single step each in `CcSecureChannel`, are that whatever happens between their steps.

### CcThreadPool

`queue_lock` is the mutex with its owner; `queue` the list from `queue_head`;
`pc[t]` where a thread is in `thread_routine`, `mainPc` where the one caller of
`pool_add_worker` and `pool_destroy` is. A critical section is several steps,
so that the moments when list and counter differ are states. `"waiting"` is the
wait set of `queue_ready`; between the test of the counter (`FindNothing`) and
the wait (`Wait`) there is a state; `pthread_cond_wait` gives up the mutex and waits in
one step, may wake without a signal (`SpuriousWake`), and takes the mutex again
(`"relock"`). `pthread_join` on detached threads fails at once (`DestroyJoin`).
After `pool_destroy` has freed the pool a thread that reaches for it may leave,
or go `"wild"` (`TouchFreed`). A job is the record `pool_add_worker` allocates,
so each is added once. `pool_destroy` is called once: the early return for a
second call is never taken by a caller in the repository.

### CcQueue, MessageQueue

Cells are memory of the size of a message, with `next` and `data`; `malloc` may
return any cell that is free, also the one `queue->tail` still points to, and
other code of the process allocates cells too (`AllocateForeign`). Any number of
queues share the heap, as the two of a connection do. `chain` is
the list from each head, kept beside the pointers; `ListWellFormed` says that
it is what the pointers say. Operations hold their queue's mutex from end to end and are one step;
`delete_message_queue` returns without releasing it (`held`).

Once a queue was drained its tail points to memory that was freed. The next
enqueue writes there, and what that does depends on who has the memory now
(`Linked`). When nobody has, or other code, the element is out of reach.
When it is an element of some list - of this queue, or of the other one of the connection, whose mutex
is not even held - that list from then on goes to the new element, and what was
behind is lost. So buffers get lost, and a queue may deliver what was
enqueued to the other. What does hold: lists are never joined or closed
to a ring, no buffer is delivered twice, and each queue delivers in the order in
which its buffers were enqueued to any queue (`turn`). A queue whose list no other
has written to (`struck`) delivers the beginning of its own sequence: what is
enqueued to it after the draining does not come out. All of this is for
operations that follow one another: the two queues have a mutex each, so an enqueue that writes into the
other's list may meet an operation half done there, a data race which the module does not split into
steps (`CcSecureChannel` takes it for `"undefined"`).

In `MessageQueue` a queue is a sequence, the difference between its `length` and
what is in reach (`stranded`, below zero when another queue's elements are in its list),
and whether its tail is elsewhere. `Enqueue` is the usual case, `EnqueueElsewhere`
the one in which the tail is in some list.

That the memory written to may belong to other code altogether is outside
`CcQueue`: only that the queues survive it is shown there. The users keep it apart:
`CcSecureChannel` and `CcSession` go to `"undefined"` or not, at the model
checker's choice, whenever a message is enqueued on a drained queue
(`WritesToFreed`), which also stands for `EnqueueElsewhere`.

### CcSecureChannel

The main thread (`main`) reads, flushes and tears down; a read is one step as
it runs without meeting another thread except at the queue and the pool, which
are atomic. Handlers are `Reply`, `HandleSilently` and `HandleUndefined`
according to the message's kind (an error message may be either of the last
two: its handler looks at wildcards through a pointer it has not set); variables the code tests without having set
them (`ret` in `cc_secure_channel_read`, the result in `cc_recv_hello_msg`, the
two in `cc_ofpmsg_handle`) are choices. Undefined behaviour that is not a
choice between a few values - a NULL buffer dereferenced, a buffer freed twice, a freed pool -
leads to `"undefined"`, where nothing is claimed any more. `read` returns into a
`size_t`: `ReadLength` is `n % SizeModulus`. A flush dequeues, then looks at
its counter, then writes; a short write counts as written and is cut off, as
in the code.

### CcSession

Every handler is a job that goes from `"dispatch"` to `"done"`: the switch of
`cc_ofpmsg_handle`, the validator, `*xid_latest`, the making of the answer, the queue,
the application's queue, the last `free_buffer`, the return. Which of these a
type goes through is in `Answered`, `WithEntry`, `Forwarded` and `Mistaken` (types whose
handler asks another type's validator). Each access to `latest` is a step, as the
code has no lock: `xid_latest++` may add to what it reads now or to what was read for the
message. Identifiers have two bytes and hosts are little-endian, so that
`ntohl` is not the identity. The main thread is there as far as the handlers meet it: it
makes jobs and deletes the queues. `frees[j]` counts how often a buffer was freed; a second time ends
the process in `"undefined"`. Under the mapping, a message has the kind `KindOf`,
and a job is `handled` once its answer is queued or its buffer freed: the
steps before that are stutters, and so are those after it until the thread is
given back to the pool.

### CcListener

`fds[p]` is the descriptor table of a process: what each open descriptor is a
descriptor of. The controller may be started with any descriptors open or
closed, standard ones included. `accept` takes the lowest free one, `fork` copies the table,
`ChildStarts` closes the listening socket and moves the connection with `dup2`
as the code does. SIGCHLD is one pending bit; `sig_child` (`handler`) runs
between any two steps of the parent, and reaps in a loop. It passes an
uninitialised pointer to `waitpid`: the write may do no harm, fail with the
child reaped (`faulted`), or destroy something.

### CcMsgCheck

The state is one validation: the message, the validator it is handed to, and
the walk over its variable part. A kind stands for what two levels of dispatch
(type, and type of statistics) make of a message. A fixed field is represented
by the error its value causes, up to two of them wrong at a time, in the order
the code looks at them. Items of a list have any type and any length among
`ItemLengths`: the code does not compare offsets with the end of the buffer, so
that what a walk reads may be anything. The exception is an offset
it has already let through: it lets it through again, for ever (`"stuck"`).
Offsets, lengths and what is left are on 16 bits (`Uint16`), and `wrapped` notes
that one of them has wrapped. A flow or queue that claims more than is left does
that to what is left (`Take`, lines 1010 and 1460), and the walk goes on behind
the message: it may come to 0 by chance and accept the reply, or end where there is
no memory (`"astray"`). Lists are cut at `MaxItems` and what ends them
(`LensWithinBound`).
The error table (`ErrorMap`) is the code's, by type; `HandedTo` has the three
cases in which another type's validator is called: FLOW_REMOVED
(`lib/cc_of_msg_recv.c:432`), FEATURES_REPLY (505), and STATS_REPLY, whose
entry in the table of handlers is that of PORT_STATUS (710). Two things the code accepts and a reader might not expect are kept: the
last action may reach past the list's end, and `actions_len` of a PACKET_OUT
is compared with nothing.

### OpenFlow, CcByteOrder, CcMsgCreate, CcMsgWire

A structure of `include/openflow.h` is the sequence of its fields with their
widths, sizes and offsets computed from them, trailing array excluded. A
conversion in `CcByteOrder` is applied to a structure whose bytes are all
told apart (`piece`), so that a field that is forgotten, swapped as another width or copied
the wrong way round shows. The walks of `ntoh_flow_stats`
and `ntoh_packet_queue` over what follows a structure are steps with their 16-bit rest;
a walk that goes on behind the parts or the length of its flow or queue has left it
(`"astray"`). There the model stops (`PutPart`, `GetPart`), while the loops (335, 373, 518, 553 of
`lib/cc_byte_order.c`) go on converting, and when creating writing, what is behind. Of such a
walk it is only claimed which contents lead there; none of them is well formed.

A creator (`CcMsgCreate`) first makes a plan - the length it gives the message,
on 16 bits, the end of what it writes at once, the place of its list - and
then puts the items of its list one by one. Two consequences of 16 bits are kept: lists
of actions whose lengths wrap to 0 are left out of the message altogether, while flows and
queues are written all the same. `die()` on an unknown action ends the process. `malloc` does not fail.

`CcMsgWire` hands what was made to the validator of its kind, which now meets
the items that are there instead of any, and what was accepted to the
conversions back. It starts, besides, with any message (as `CcMsgCheck` does)
and with received lists whose parts fill their flow or queue, whether their
lengths are right or not. A creator that has written
behind its message is not followed any further.

### CcHashTable, KeyedTable

A bucket is the sequence of its entries or NULL, `nonempty` the list of
buckets. Insert, lookup and delete are functions on the table (`InsertedEntry`,
`Found`, `DeletedEntry`) used by one action each; `returned` records the last
operation and its answer, so that an operation cannot pass for another one in `KeyedTable`; `walk` is `foreach_hash` with
the two pointers it saves, and between `ForeachEntry` and `CallbackReturns` the
callback may delete or replace its key, or insert keys that are not there. An
iterator is given up when the table changes, as the comment on
`init_hash_iterator` asks. The list's own mutex is held inside the table's and
adds nothing.

### CcXidTable

Each entry is in `xid_hash` (a `KeyedTable` map; the key is the address of the
entry's xid) and in `xid_entry_list`. `FindListCustom` stops as
`find_list_custom` does; `FinalizeXidTable` deletes the table with its entries. The handlers never reach `cc_delete_xid_entry` (see above);
the module lets it be called as the interface it is.

## 3. What the runs check

| run | properties | shows |
|---|---|---|
| `pool` | `TypeOK`, `HeadExists`, `CounterMatchesList`, `NothingLostOrReordered`, `OneOwner`, `NoLostWakeup`, `NoSleeperAfterBroadcast`, `NothingTakenAfterShutdown`, `EveryJobProcessed`, `DestroyReturns`, `ThreadsLeave`, `ImplementsJobPool` | list, counter, mutex and condition variable stay consistent in every interleaving with a destroy; jobs are processed unless the pool is destroyed; the destroy returns and the threads go |
| `queues` | `TypeOK`, `ListWellFormed`, `DeliveredInOrder`, `ImplementsMessageQueue` | two queues on one heap lose elements, each other's too, but never join or corrupt a list, and deliver nothing twice or out of order |
| `queue_length` | `LengthCanBeDequeued` - violated | see 5 |
| `channel` | `JobCarriesOwnMessage`, `WireInOrder`, `TeardownEnds` | taking the head of the queue never gives a job the message of another; the wire keeps the order; the teardown ends |
| `channel_length` | `RecvLengthBounded` - violated | see 5 |
| `session` | `FreedOnce`, `ImplementsChannel`, `HandlersEnd` | every interleaving of the steps of handlers, senders and teardown is one of whole handlers; each message is freed once; a thread is never kept by anything but a deleted queue |
| `session_echo` | `SameXidInReply` - violated | see 5 |
| `listener` | `OnlyOwnConnection`, `SelectsItsConnection`, `NoSecondListener`, `ZombiesReaped` | no descriptor leaks; the loop selects on its own connection; all children are reaped |
| `listener_channel` | `ChannelIsItsConnection` - violated | see 5 |
| `check` | `AcceptedIsWhole`, `AcceptedAddsUp`, `StuckOnlyByItsLengths`, `ErrorHasOneAnswer`, `CheckEnds`; `ConvertedWhole`, `WritesStayInside`, `CreatedIsAccepted`, `AcceptedIsReadRight` | what is accepted is whole, and its flows or queues add up, on 16 bits if one claimed more than was left; what never ends has a zero length or something that wraps; errors have answers; what the creators make stays inside its message, passes the validators, and is read back as it was meant |
| `hash` | `TableConsistent`, `SavedIsAlive`, `ForeachVisitsOnce`, `IteratorReturnsAll`, `ImplementsKeyedTable` | the table is a map, also when changed from a callback |
| `xid_delete` | `DeletedFromBoth` - violated | see 5 |

`JobCarriesOwnMessage` is a property one would not expect to hold: once the
receive queue was drained - by the very job of the first message - everything
enqueued is stranded, and every later job gets NULL rather than an older
message. It fails as soon as the order of enqueue and dequeue changes.
`AcceptedIsWhole` says nothing of the greatest size of a HELLO, see 5.
`AcceptedAddsUp` says of a reply in which something wrapped that its lengths
make up the body on 16 bits only: 100 bytes and then 65524 are accepted as a body of
88, by a validator that has read behind the message. `ErrorHasOneAnswer` leaves out what switches report (their errors are not
answered) and names the errors without an entry in the table (`Unanswered`): a
gap that is not in that list is a violation. `WritesStayInside`,
`CreatedIsAccepted` and `AcceptedIsReadRight` name the conditions the code
relies on and does not test: that the content fits into 16 bits of length
(`Fits`), and that an item's length is its own (`WellFormedItem`, for each item of
`WellFormed`). A creator given anything else writes behind its buffer. Two kinds of
well-formed messages are refused (`BareQueues`): a queue configuration without
queues, below its validator's minimum, and one with a queue of no properties
at its end, as the loop that counts the queues (`lib/cc_of_msg_check.c:1459`)
goes on only while more than 8 bytes are left, and what remains is an error.
Of an accepted flow whose last action claims more than the flow has, the
conversion leaves the flow behind, or stops silently in front of the action when
not even 8 bytes are left for it (`CutShort`): `ntoh_flow_stats` and
`ntoh_packet_queue` go by what remains, the validators by where the next begins.
Both exceptions came out of the attempt to prove the properties without them:
no list of the first bounds had a flow that ends within a header, or a queue of
nothing but its own 8 bytes.

### Bounds

| run | bound | why it is enough |
|---|---|---|
| `pool` | 3 threads (as in the pool test), 3 jobs | one thread working, one waiting and one about to lock; a job nobody was signalled for; any number in the proof |
| `queues` | 2 queues, 5 cells, 4 buffers | the heads, and three cells that are elements of either or other code's: a queue is drained, the other gets the cell its tail was left at and an element behind it, and the first writes there; any numbers in the proof |
| `queue_length` | 1 queue, 5 cells, 4 buffers | the trace needs two enqueues |
| `channel`, `channel_length` | `MaxReads` 3 (jobs), 2 workers, 2 or 3 messages of the application, `FlushLimit` 2 for 50, `BufferSize` 3 and `HeaderSize` 2 for 1024 and 8, `SizeModulus` 8 for 2^64 | draining, stranding and a job after it; a flush that reaches its limit with one message more; lengths -1, 0, below and above a header |
| `listener` | 3 connections, `MaxFd` 4, `FdSetSize` 3 for 1024, `AcceptFd` 3 as in the code | two live children and one being accepted; descriptors below, at and above both limits; every set of inherited descriptors |
| `listener_channel` | 2 connections, `MaxFd` 5, `FdSetSize` 4 | the same |
| `session`, `session_echo` | 2 reads of seven types, one for each way through a handler, valid or not; 2 workers; a sender that increments and one that generates; `Base` 2, so that identifiers are 0 to 3; 1 and 2 from the peer | one is the other's bytes reversed, so that a missing or doubled conversion shows; the largest identifier is reached; two handlers, two senders and the teardown at once |
| `check` | `Bodies`: 8 sizes of variable parts from none to two elements of the larger kinds; `ItemLengths`: 0, below, at and above each size, and 65472, from which the next wraps; `MaxItems` 2 before the one that ends a list; two wrong fields | each branch of the loops is taken first, in the middle and last; two wrong fields show which is looked at first |
| `check`, creators | data of 0, 64, 65519 and 65540 bytes; arrays of 0, 2, 1365 and 65536 elements; lists of at most `MaxActions` 2 actions, and of flows or queues of the `Shapes` two with one part or one with two; lengths right, short, long, 91 (a flow that ends within a header), 8 (a queue of no properties), and 65472, two of which wrap | each sum of lengths is below, at and above 16 bits; the loops go wrong at the first, at a later and at no item |
| `hash` | 4 keys in 3 buckets, one of them of two keys, 2 values | a bucket that outlives a deletion and ones that do not; a bucket before, at and after the one walked |
| `xid_delete` | 2 entries, `MaxXid` 3 | one to delete and one to delete by mistake |

Symmetry is used for interchangeable threads, jobs, cells, buffers, values and the two
keys of the shared bucket, only in runs without a liveness property (the
refinements in `queues` and `hash` are of safety).

Deadlock is not checked (`CHECK_DEADLOCK FALSE`) where the system may stop: a
destroyed pool, a process that ended, a validation that returned, a bounded
supply of jobs or messages. It is checked in `hash`, where an operation is
always possible.

### Fairness

- `CcThreadPool!Fairness`: each thread takes its next step (weak fairness) and,
  when it competes for the mutex, gets it in the end (strong fairness on `Lock`,
  `AddLock`, `DestroyLock`): the scheduler runs every thread, and a POSIX mutex
  is handed to somebody whenever it is free. A job's function is assumed to return. Nothing is assumed of
  spurious wake-ups, or of anyone adding jobs or destroying the pool.
- `CcSecureChannel!Spec`: only that the main thread goes on once it has left
  the loop. The workers are not relied on - some may wait for good for the mutex
  of a deleted queue, and `TeardownEnds` holds nonetheless, as `pool_destroy`
  waits for none of them.
- `CcListener!Spec`: a pending signal is delivered and the handler runs on. Nobody has
  to connect, be accepted or end.
- `CcSession!Spec`: each thread that is in a handler goes on as long as it can.
  Nothing is assumed of the main thread, the pool or the senders.
- `CcMsgWire!WireSpec`: a validator that was called runs.

## 4. What is proved

Every safety property of the passing runs for every value of the constants, and
that `CcSession` implements `CcSecureChannel`.

| module | from | theorems |
|---|---|---|
| `CcThreadPoolProofs` | `PoolAssumption` | see below |
| `CcQueueProofs` | `QueueAssumption`, `NullAssumption` (NULL is no cell, buffer or state of a queue) | `TypeCorrect`, `ListStaysWellFormed`, `DeliveryInOrder`, `Refinement` |
| `CcSecureChannelProofs` | `ChannelAssumption`, `NullAssumption` | `JobsNotMixed`, `WireOrdered` |
| `CcListenerProofs` | `ListenerAssumption` (limits are numbers; connections, the parent and the other descriptors' names differ) | `TypeCorrect`, `ConnectionsNotShared`, `SelectionCorrect`, `OneListener` |
| `CcSessionProofs` | `SessionAssumption`, `NullAssumption` | `MessagesFreed`, `TypeCorrect`, `Refinement` |
| `CcHashTableProofs` | `TableAssumption` (the hash is a function from keys to buckets; NULL is no key, bucket, value, chain or table) | `TypeCorrect`, `BucketsConsistent`, `WalkIsSafe`, `WalkVisitsOnce`, `IteratorVisitsAll`, `Refinement` |
| `CcMsgCheckProofs` | `CheckAssumption` (the bounds are natural numbers) | `OnlyWholeAccepted`, `LengthsAddUp`, `StuckByLengths`, `EveryErrorAnswered` |
| `CcMsgWireProofs` | `CheckAssumption`, `CreateAssumption` (the same), `OfpAssertions` (the sizes `include/openflow.h` asserts) | the same four of what creators make (`Wire...`), `CreatorsStayInside`, `ConversionsWhole`, `WhatIsCreatedIsAccepted`, `WhatIsAcceptedIsReadRight` |

The assumptions are evaluated in the runs. Each module has one strengthening and the theorem
that it is an invariant, from which the others follow; `CcMsgWireProofs` has one for each of its questions.

### The pool

For every non-empty finite set of threads and every set of jobs, from the
assumption that threads, the main thread and the two NULL values are different:

| theorem | |
|---|---|
| `Invariance` | `IInv` is an invariant |
| `TypeCorrect`, `HeadAlwaysExists`, `CounterCorrect`, `JobsConserved`, `OwnersUnique`, `WakeupsKept`, `NobodySleepsThroughDestroy` | the seven invariants of the run `pool` |
| `TakingStops` | the action property `NothingTakenAfterShutdown` |
| `Refinement` | `SafeSpec => JobPool!SafeSpec` under the mapping `Abstract` |

None of the invariants is inductive. `IInv` is the conjunction of `TypeOK` and:

- `LockInv`: whoever is in a critical section owns the mutex. Everything else
  rests on it: it is why at most one of the threads and the main thread is
  between the two updates of list and counter.
- `ShutdownInv`: where `pool_destroy` is determines `shutdown`, `freed` and
  `dropped`; no thread is past its test of `shutdown` when it is set, and none
  waits after the broadcast.
- `CounterInv`: the exact distance of counter and list at every point: one less
  in between the two statements of either kind, equal otherwise. `HeadExists`
  follows: in `"unlink"` the list is one longer than a number that is not negative.
- `HistoryInv`: `added = taken \o queue \o dropped`, without a repetition, and the
  new job is in none of them until it is linked.
- `OwnerInv`: a thread has a job just between `unlink` and the end of `process`;
  what was taken is held by one thread or done. That a job being unlinked is new
  to all (`HeadIsNew`) comes from `HistoryInv`.
- `WakeInv`: when a job waits and its signal is not still to be sent, some thread does not
  sleep, and what a thread about to wait has seen - a counter at zero - still
  holds. The second half is kept because whoever counts a job up needs the mutex that
  thread has, the first by `Wait` because of the second.

Each part is kept by every step given those before it (`Next...Inv`);
`NextIInv` puts them together. For `Refinement`, `StepSimulation` maps the link
of a job to `Submit`, `Unlink` to `Start`, `Process` to `Finish`, the mark of
`pool_destroy` to `Close` and its drain to `Discard`; all else stutters. That
fewer jobs run than there are threads at a `Start` (`RoomForOneMore`) is a
counting argument over the threads without a job.

### The queue

For any set of queues on one heap. `IInv` is `TypeOK` and:

- `QueueOk`, of each queue nobody has deleted: its cells are different, allocated to queues, none is
  the head, and each points to the next (`ListOk`); they hold buffers; and a tail points
  to a head only before the queue's first enqueue, so that no enqueue cuts a list at
  the head of another queue.
- `Apart`: no cell is in two lists. An enqueue
  writes to the new cell and to the one its tail points to. The latter is in one list at most, which from there on
  goes to the new cell, and that was in none: so the list written to ends there
  and the others are as they were, whoever's tail it was and whatever `malloc` returned
  (`ListJoin`, `EnqueueKeepsList`).
- `InTurn`, of the sequences of what each queue has delivered and still can: turns go up in
  each, and no buffer is in two. A cut list gets the buffer enqueued last
  at its end (`ComesLast`), which is behind everything and nowhere else.
- for a queue whose list no other has written to: `TailOk` - the tail is the last cell and the
  histories are in balance, or the list is empty, and then for good - from which follows
  that what it delivers is where its own sequence begins (`Begins`).

`Refinement` maps `Enqueue` to `MessageQueue!Enqueue` when the tail is the last cell of its list or
in no list, and to `EnqueueElsewhere` when it is in some list otherwise
(`PictureIs`, `EnqueuePictured`); everything
else to the action of that name or to a stutter.

### The channel

`RecvInv` says that the receive queue of a channel in use has nothing to
dequeue between two reads - the fifo is empty, the rest is stranded - so that
a dequeue after an enqueue returns the message just enqueued, or NULL. `SendInv` has a number k,
where the queue stands in the history of what was sent (`StandsAt`): the
wire is a subsequence of what comes before it (`Ordered`), the queue is what follows. An enqueue
leaves k, a dequeue advances it by one, and the message in hand is written behind it or
never. It holds with a queue that strands, as it is one of `MessageQueue`.

### The listener

`ParentInv` says which descriptors the listening process has at each statement: its
socket, and a connection only from `accept` to `close`. `ChildInv`: a child
has no connection but its own, the listening socket only before it starts, and selects on a
descriptor of its connection. `Fork` carries the first over into the second;
`ChildStarts` is the delicate step, with a `dup2` that may land on the descriptor it copies.
`LowestIsFree`, that the kernel's choice exists and is free, is by
well-foundedness of the numbers.

### The handlers

`Freed` gives, for each place of a handler, how often its buffer has been freed.
Two places are not determined by it: the last `free_buffer` may come upon one that the
application queue has freed, and a type without a case returns with
its buffer. `JobsInv` says that a message does not change under its handler: a
read writes the buffer of a job that nobody has begun. `MovesTo` states what
any step of a handler does to the invariant, once for all of them.

For `Refinement` that is not enough: the mapping gives a message the kind
`KindOf` its type and validity have, and the step of `CcSecureChannel` it maps to
depends on the kind. `ChannelInv` adds to it: `KindInv` - `KindAt` ties each place of a
handler to the kinds that lead there and to whether its reply is in `sent`, which
makes the last step of an answering handler a stutter and that of any other one
`HandleSilently` or `HandleUndefined` - and `DataInv`, the types and that a buffer, queue or
identifier is there where it is used. Then each step of a handler, a sender or the main thread maps
to one step or to none: `Enqueue` to the `Reply` of that kind, the way out to the
handling, a dereferenced NULL to the undefined, the rest to stutters. That
identifiers stay on two bytes through `ntohl` and `++` (`Modulo` and
the lemmas after it) is what `TypeCorrect` needs besides.

### The hash table

`TableInv`: a bucket that exists has entries, each once, with different keys
that all belong there; the list is that of the existing buckets, each once; the
keys are finitely many and `length` is their number. That entries are
different, and not only keys, is needed because deletion takes out the first
match and the proof must know there is no other. `EntryDeleted` and
`EntryInserted` say what each operation does to the entries of every bucket;
`InsertedIsFound` and `DeletedIsGone` turn that into what a lookup answers, from
which the implementation of `KeyedTable` follows step by step. `WalkInv`: the saved
entry is in the table, in the bucket walked, and not the callback's; the saved
bucket is in the list and not the one walked. The last part is what makes the
walk survive a callback that deletes its key and with it the bucket.

What a whole walk visits is a statement about the places it has not come to. `FromOn`
is what lies at and behind an element or a bucket, `Ahead` all that is still to be met from
where the walk is. In `VisitInv` no key met is ahead (`GoesOn`), and each that was there
when the walk began is met or ahead. A step takes the first of what is
ahead; a callback deletes no key but the one at hand, and what it inserts goes in front of a bucket or of the list
of buckets, where the walk has been or has it ahead as a whole. `IterInv` is the same of the
iterator, whose table does not change.
`RemovedOnce`, `RemovedElement` and `PutInFront` are about lists without repetition.

### Validation

`CheckInv` is inductive for lists of any length and items of any type and length:

- `Handed` and `AtItsPart`: which validator may be where, and that behind the fixed
  part, and after a success, a message is whole.
- `AddedUp`: while flows or queues are walked, what is left and the lengths taken
  so far make up the body on 16 bits, whatever they claim; and as numbers as long as none
  claimed more than was left, which is what `wrapped` notes.
- `Passed`: without a wrap the offset is beyond every offset seen, so that only a
  step of no length can come back to one.

`ErrorsFit` adds which errors each validator can end with; `OneAnswer` compares
them with the entries of the table. `Sum` over a sequence is a fold, and the prover has no
induction over it; `SumsExist` and `TakenInAnyOrder` get round that by induction over
the numbers up to the size of the set folded, after which `Sum` of a list with one
more element (`SumOfMore`) is all the proofs use.

### Creation

`WireInv` carries `CheckInv` through the stages of `CcMsgWire`: a creator's message, with whatever length its
16 bits give, is a message a validator may be handed.

`CreatorsStayInside` has two halves. `PlansStayInside`: for each kind, what is written at
once ends inside the length of the plan, and what is left of it is the sum of the items.
It goes through the four ways creators compute a length (`OfSize`, `WithData`,
`WithArray`, `WithList`), with the sizes and offsets of the structures computed from their fields.
`WritesInv`: while the list is put in, the room left is that of the items not yet put, by
prefix sums of their lengths, and within an item, of its parts. Without `Fits` or
`WellFormed` neither is true, and the run shows the messages for which it is not.

### Conversion

`ConversionsWhole` also has two halves. For each structure and each function that
converts it, that every field is treated once and as its type asks (`Turns`): integers of two, four
and eight bytes swapped whole, the rest copied. The other half is that no
conversion is asked for an action or property without fields, though readers
look at no type: `ReadInv` carries what the loop before has seen. `Readable` says of
an item that each part its conversion comes to (`Comes`) is of a known type; a creator's own loop
has it for the items put in so far, and for a received reply it is the validator
that has seen them (`FlowsChecked`: the flows let through so far are readable, and so are the actions of
the one it is at). That the two walks, one by offset and one by
what remains, come to the same actions is `NextReads` and `PartComes`.

### What is created, accepted and read

`WhatIsCreatedIsAccepted` and `WhatIsAcceptedIsReadRight` relate three parts of the
code that never look at each other: a creator adds up lengths on 16 bits, a validator walks by the
offsets of what it finds, a reader by what remains. They hold for lists of any
length, of items of any length their types allow or not, and need two more invariants.

`TrackInv` follows a content that fits from its creator to its reader:

- A creator's plan is as long as what it was given (`PlanIsNeeded`), as its
  validator allows, and nothing of its fixed part is wrong (`Given`, `NothingWrong`). For this the lengths
  are computed kind by kind from the fields of the structures, together with the ends of the
  arrays and lists behind them (`EndsOfConfig`, `EndOfMatch`, `EndOfFlowMod` and the others).
- `Recorded`: the lengths that the validator has noted are those of the flows or queues of the
  content, in their order. Without it the walk over properties would not be known to
  come to the queue it is at.
- `Tracked`, when each length is filled by the list behind it (`Filled`): the items
  in front of the offset, and the flows or queues in front of the one that is walked,
  have been let through (`Right`), so that all are once the message is accepted (`AllRight`).
- `Straight`, when the content is well formed: the validator is at the beginning of an
  item, which it has not seen, or behind the last one, so it can neither be kept in
  a circle nor be off an item, and refuses nothing. The last
  queue needs more than 8 bytes for this, which is where `BareQueues` comes from.

`EndInv` says of each flow or queue that was walked by what remains that it claims to end
less than a header behind one of its parts (`Ended`), and of a walk that leaves its
flow or queue that it is `Behind` that end. A part is less than 2^16 bytes long,
so one that overruns wraps what remains into a number that is not small: the walk
goes on and is seen to be astray.

`RightAction`, `RightProperty` and `WellFormedIsRight` compare what validators let through
with what the structures are: the sizes in the validators' tables are those of
`include/openflow.h` (`SizesAgree`), and an action of a type without a size is let through by none.
Put together: in an accepted message that is read to the end, an item is let through
as a whole by `AllRight`, and by `Ended` its parts fill its length, or the last is cut short.

Both invariants were checked with TLC on messages of up to two items, with
quantifiers over natural numbers bounded by the lengths of the lists, before they were proved.

### Only model-checked

Everything about fairness (`EveryJobProcessed`, `DestroyReturns`,
`ThreadsLeave`, the liveness half of `ImplementsJobPool`, `TeardownEnds`,
`HandlersEnd`, `ZombiesReaped`, `CheckEnds`), which the prover does not reach; and
the xid table, which only has a run that shows a violation.

## 5. Disagreements found

Each is a run that ends in a violation of what a comment or test says.

1. **`queue_length`** - after a queue was drained once, `length` counts buffers
   that `dequeue_message` never returns: it frees the last element and leaves
   `queue->tail` there (`lib/cc_queue.c:164`). `test/test_queue/test_cc_queue.c:40`
   dequeues `length` times and reads each buffer. For the channel this means
   that only the first message of a connection reaches its handler.
2. **`channel_length`** - the result of `read` is tested as a `size_t`
   (`lib/cc_secure_channel_recv.c:148`): a failed read becomes a message of
   `SIZE_MAX` bytes, where the comment at 167 says "no more than the
   CC_BUFFER_SIZE".
3. **`listener_channel`** - `cc_conn_accept` notes the descriptor (338), then moves
   the connection elsewhere and closes it (344) when it is below 3, as the comment there
   explains: reads and writes go to a closed descriptor.
4. **`session_echo`** - an echo reply has its request's identifier with the
   bytes reversed on a little-endian host: `cc_recv_echo_request` passes on what
   is on the wire (`lib/cc_of_msg_recv.c:271`) and `cc_create_header` applies
   `htonl` to it, where the comment at 269 says "with same xid in reply".
5. **`xid_delete`** - `find_list_custom` stops at the first element for which the
   function does *not* return `CC_E_NONE`, against its comment
   (`lib/cc_single_link.c:161`); `cc_delete_xid_entry` frees another entry.

One more was met and has no run, as the property would only restate a bound in a table:
`validate_hello` (`lib/cc_of_msg_check.c:66`) accepts a HELLO of exactly 8 bytes, so
that one with a body is refused, where `include/openflow.h:151` says that
"implementations must ignore any data included in the body". `AcceptedIsWhole`
therefore does not say that an accepted HELLO has no body; the model (`Size`) has
the bounds of the code.

## 6. What is not modelled

- Buffers (`lib/cc_buffer.c`), which every module takes by their interface. By
  the letter `append_back_buffer` on an empty buffer allocates into its own
  parameter, so that no message would ever have content and no other module anything to say.
  `free_buffer` writes to the buffer after it is freed (163), without a
  consequence a model could tell apart.
- The senders below `lib/cc_of_msg_send.c:166`, which do not compile, and the
  handlers no message leads to.
- The timer, which nobody calls; log and text formatting; reading the
  configuration.
- `pthread_create`, `malloc` and mutex calls that fail. A pool with fewer threads
  than it joins reads uninitialised thread identifiers.
- `foreach_message_queue` (it changes nothing and has no caller), the functions of the two
  list modules nobody calls, the dump of the xid table.
- The files under `test/` beyond what they say of the queue and the pool;
  `test/` also holds older copies of some sources.

## 7. Plan

Done, in the order of importance: pool with its abstract specification and
proofs; queue; channel on top of both; listener; validation; hash table; xid;
creation, byte order and the way from a creator to a reader; handlers and
senders step by step; proofs of the safety of all of these, of the
implementations of `JobPool`, `MessageQueue`, `KeyedTable` and `CcSecureChannel`, that
conversions treat every field, and that creators, validators and readers agree.

What is left:

1. `CcBuffer`, when `append_back_buffer` hands back what it allocates: data is
   never moved over itself or past the block.
2. What does hold of `CcXidTable`, once an entry can be found and deleted.
