-------------------------- MODULE CcSecureChannel --------------------------
(***************************************************************************)
(* The process that cc_conn_accept forks for one switch: its main thread   *)
(* in the select loop (lib/cc_init_of.c) reading into recv_queue and       *)
(* flushing send_queue (lib/cc_secure_channel_recv.c, _send.c), and the    *)
(* threads of the pool that handle what was read and queue the replies.    *)
(* The queues are those of MessageQueue and the pool is JobPool, which     *)
(* CcQueue and CcThreadPool are shown to implement.                        *)
(*                                                                         *)
(* Where the code has undefined behaviour whose outcome is not a choice    *)
(* between a few values (a NULL buffer dereferenced, a buffer freed twice, *)
(* a queue element written to that another queue has got since it was      *)
(* freed) the process becomes "undefined", and nothing more is said of it. *)
(***************************************************************************)
EXTENDS Integers, Sequences, FiniteSets

CONSTANTS Workers,       \* CC_MAX_THREAD_NUM
          MaxReads,      \* bound: how often the channel is read
          BufferSize,    \* CC_RECV_BUFFER_SIZE
          HeaderSize,    \* sizeof(struct ofp_header)
          SizeModulus,   \* size_t counts modulo this
          FlushLimit,    \* messages written in one flush
          AppMsgs,       \* what cc_send_... functions are asked to send
          NULL

ASSUME ChannelAssumption ==
  /\ {Workers, MaxReads, HeaderSize, FlushLimit} \subseteq Nat \ {0}
  /\ BufferSize \in Nat /\ HeaderSize <= BufferSize
  /\ SizeModulus \in Nat /\ BufferSize < SizeModulus - 1

VARIABLES main,        \* where the main thread is
          reads,       \* how often the channel has been read
          recvQueue, sendQueue,
          recvBuf,     \* for each job, the recv_buf of its trans_info
          handled,     \* the jobs whose handler has returned
          count,       \* the counter of cc_flush_to_secure_channel
          sent,        \* history: what was enqueued on send_queue
          wire,        \* history: what was written, in whole or in part
          pending, running, finished, discarded, closed  \* the thread pool

poolVars == <<pending, running, finished, discarded, closed>>
recvVars == <<reads, recvQueue, recvBuf, handled>>
sendVars == <<sendQueue, count, sent, wire>>
vars == <<main, recvVars, sendVars, poolVars>>

Jobs == 1 .. MaxReads

\* How a message is handled: an echo request is answered; a hello is, unless
\* the uninitialised result in cc_recv_hello_msg says it is not valid; replies
\* without an xid entry, messages that are not valid and types without a case
\* are only freed; so are error messages, after a look through a pointer that
\* is not set; the others go to the application queue.  CcSession has the
\* handlers step by step.
Kinds == {"hello", "echo", "silent", "error", "app"}

Message == [read : Jobs, kind : Kinds, length : 0 .. SizeModulus - 1]
Replies == [reply : Jobs]

RecvQueue == INSTANCE MessageQueue WITH
  Queues <- {}, Msgs <- Message, queue <- recvQueue, output <- <<>>
SendQueue == INSTANCE MessageQueue WITH
  Queues <- {}, Msgs <- AppMsgs \cup Replies, queue <- sendQueue,
  output <- <<>>
Pool == INSTANCE JobPool

\* A deleted queue is not mistaken for another.
ASSUME NullAssumption == NULL \notin SendQueue!QueueState

TypeOK ==
  /\ main \in {"select", "flush", "delete_recv", "delete_send", "close_pool",
               "discard", "returned", "exited", "undefined"}
  /\ reads \in 0 .. MaxReads
  /\ recvQueue \in RecvQueue!QueueState \cup {NULL}
  /\ sendQueue \in SendQueue!QueueState \cup {NULL}
  /\ recvBuf \in [Jobs -> Message \cup {NULL}]
  /\ handled \in SUBSET Jobs
  /\ count \in 0 .. FlushLimit
  /\ sent \in Seq(AppMsgs \cup Replies)
  /\ wire \in Seq(AppMsgs \cup Replies)
  /\ pending \in Seq(Jobs)
  /\ {running, finished, discarded} \subseteq SUBSET Jobs
  /\ closed \in BOOLEAN

\* cc_init_sw_info.
Init ==
  /\ main = "select"
  /\ reads = 0
  /\ recvQueue = RecvQueue!NewQueue
  /\ sendQueue = SendQueue!NewQueue
  /\ recvBuf = [j \in Jobs |-> NULL]
  /\ handled = {}
  /\ count = 0
  /\ sent = <<>>
  /\ wire = <<>>
  /\ Pool!Init

Alive == main \notin {"exited", "undefined"}

\* enqueue_message on a queue that was drained writes to the element that was
\* dequeued last.  It is no more the queue's, and may be in the other queue.
WritesToFreed(q) == q.drained /\ main' = "undefined"

-----------------------------------------------------------------------------
(***************************************************************************)
(* Reading.                                                                *)
(***************************************************************************)

\* After cc_of_handler_recv_event the loop flushes if the channel can be
\* written, and goes on or breaks: the result cc_secure_channel_read tests is
\* never assigned, so that neither is tied to what was read.
AfterRead == main' \in {"select", "flush", "delete_recv"}

\* read() returns n, or -1, into a size_t.
ReadLength(n) == n % SizeModulus

\* A zero-length read, or a header of another version or with too long a
\* length: the buffer is forgotten.
ReadNothing ==
  /\ main = "select"
  /\ reads < MaxReads
  /\ reads' = reads + 1
  /\ AfterRead
  /\ count' = 0
  /\ UNCHANGED <<recvQueue, recvBuf, handled, sendQueue, sent, wire, poolVars>>

\* Mutation: create_trans_info takes a message before the new one is enqueued.
ReadInWrongOrder(n, kind) ==
  /\ main = "select"
  /\ reads < MaxReads
  /\ ReadLength(n) # 0
  /\ reads' = reads + 1
  /\ LET j == reads + 1
         m == [read |-> j, kind |-> kind, length |-> ReadLength(n)]
         q == RecvQueue!Dequeued(recvQueue)
     IN  /\ recvBuf' = [recvBuf EXCEPT ![j] = RecvQueue!FirstOf(recvQueue)]
         /\ recvQueue' = IF ReadLength(n) >= HeaderSize
                         THEN RecvQueue!Enqueued(q, m)
                         ELSE q
         /\ Pool!Submit(j)
  /\ AfterRead
  /\ count' = 0
  /\ UNCHANGED <<handled, sendQueue, sent, wire>>

\* cc_recv_from_secure_channel when it reads n bytes or fails with n = -1.
\* The result is never below zero as a size_t, and -1 passes for a message
\* made of whatever the fresh buffer holds.  Less than a header is not
\* enqueued, but a trans_info is made of it and handed to the pool all the
\* same.
Read(n, kind) ==
  /\ main = "select"
  /\ reads < MaxReads
  /\ ReadLength(n) # 0
  /\ reads' = reads + 1
  /\ LET j == reads + 1
         m == [read |-> j, kind |-> kind, length |-> ReadLength(n)]
         q == IF ReadLength(n) >= HeaderSize
              THEN RecvQueue!Enqueued(recvQueue, m)
              ELSE recvQueue
     IN  /\ recvBuf' = [recvBuf EXCEPT ![j] = RecvQueue!FirstOf(q)]
         /\ recvQueue' = RecvQueue!Dequeued(q)
         /\ Pool!Submit(j)
  /\ \/ AfterRead
     \/ ReadLength(n) >= HeaderSize /\ WritesToFreed(recvQueue)
  /\ count' = 0
  /\ UNCHANGED <<handled, sendQueue, sent, wire>>

-----------------------------------------------------------------------------
(***************************************************************************)
(* The pool's threads: cc_ofpmsg_handle and the handlers it calls.         *)
(***************************************************************************)
Start ==
  /\ Alive
  /\ Pool!Start
  /\ UNCHANGED <<main, recvVars, sendVars>>

Unhandled(j) == Alive /\ j \in running \ handled

HandlerReturned(j) == handled' = handled \cup {j}

\* The handlers of hello and echo request, when they queue an answer.  On a
\* deleted queue enqueue_message waits for a mutex nobody will release.
Reply(j) ==
  /\ Unhandled(j)
  /\ recvBuf[j] # NULL
  /\ recvBuf[j].kind \in {"hello", "echo"}
  /\ sendQueue # NULL
  /\ sendQueue' = SendQueue!Enqueued(sendQueue, [reply |-> j])
  /\ sent' = Append(sent, [reply |-> j])
  /\ HandlerReturned(j)
  /\ UNCHANGED main \/ WritesToFreed(sendQueue)
  /\ UNCHANGED <<reads, recvQueue, recvBuf, count, wire, poolVars>>

HandleSilently(j) ==
  /\ Unhandled(j)
  /\ recvBuf[j] # NULL
  /\ recvBuf[j].kind \in {"hello", "silent", "error"}
  /\ HandlerReturned(j)
  /\ UNCHANGED <<main, reads, recvQueue, recvBuf, sendVars, poolVars>>

\* recv_buf is NULL and its header is read; or cc_recv_err_msg reads through
\* ofp_err before it is set; or the message was for the application:
\* cc_insert_to_app_queue frees it and reports an error, upon which the
\* handler frees it again.
HandleUndefined(j) ==
  /\ Unhandled(j)
  /\ recvBuf[j] # NULL => recvBuf[j].kind \in {"app", "error"}
  /\ main' = "undefined"
  /\ UNCHANGED <<recvVars, sendVars, poolVars>>

\* Once the handler has returned, cc_ofpmsg_handle tests two variables it has
\* not set; if they say so it frees the buffer a second time.  The thread then
\* returns to the pool, which may itself have been freed.
Finish(j) ==
  /\ Alive
  /\ j \in handled
  /\ Pool!Finish(j)
  /\ main' \in {main, "undefined"}
  /\ UNCHANGED <<recvVars, sendVars>>

\* One of the cc_send_... functions, called by another thread of the process.
AppSend(m) ==
  /\ Alive
  /\ \A i \in DOMAIN sent : sent[i] # m
  /\ sendQueue # NULL
  /\ sendQueue' = SendQueue!Enqueued(sendQueue, m)
  /\ sent' = Append(sent, m)
  /\ UNCHANGED main \/ WritesToFreed(sendQueue)
  /\ UNCHANGED <<recvVars, count, wire, poolVars>>

\* Three of them hand a buffer they have not set to the function that makes
\* the message, which reads it.
AppSendUndefined(m) ==
  /\ Alive
  /\ \A i \in DOMAIN sent : sent[i] # m
  /\ main' = "undefined"
  /\ UNCHANGED <<recvVars, sendVars, poolVars>>

-----------------------------------------------------------------------------
(***************************************************************************)
(* Flushing: each round of cc_flush_to_secure_channel dequeues first and   *)
(* tests the counter afterwards.                                           *)
(***************************************************************************)
StartFlush ==
  /\ main = "select"
  /\ main' = "flush"
  /\ count' = 0
  /\ UNCHANGED <<recvVars, sendQueue, sent, wire, poolVars>>

NextMessage == SendQueue!FirstOf(sendQueue)

DequeueToSend ==
  /\ main = "flush"
  /\ NextMessage # NULL
  /\ sendQueue' = SendQueue!Dequeued(sendQueue)
  /\ UNCHANGED <<recvVars, sent, poolVars>>

FlushEnds ==
  /\ main = "flush"
  /\ NextMessage = NULL
  /\ main' = "select"
  /\ UNCHANGED <<recvVars, sendVars, poolVars>>

\* The message that is one too many is dequeued and forgotten.
FlushStops ==
  /\ count = FlushLimit
  /\ DequeueToSend
  /\ main' = "select"
  /\ UNCHANGED <<count, wire>>

Write ==
  /\ count < FlushLimit
  /\ DequeueToSend
  /\ wire' = Append(wire, NextMessage)
  /\ count' = count + 1
  /\ UNCHANGED main

\* Less than the message was written: the rest is not, and it does not count.
WritePart ==
  /\ count < FlushLimit
  /\ DequeueToSend
  /\ wire' = Append(wire, NextMessage)
  /\ UNCHANGED <<main, count>>

\* Mutation: when the channel is busy the message goes back into the queue.
WriteFailsAndRequeues ==
  /\ main = "flush"
  /\ count < FlushLimit
  /\ NextMessage # NULL
  /\ sendQueue' = SendQueue!Enqueued(SendQueue!Dequeued(sendQueue), NextMessage)
  /\ main' = "select"
  /\ UNCHANGED <<recvVars, sent, poolVars, count, wire>>

\* The write fails, be it only because the channel is busy: the message is
\* freed and the loop of cc_conn_accept is left.
WriteFails ==
  /\ count < FlushLimit
  /\ DequeueToSend
  /\ main' = "delete_recv"
  /\ UNCHANGED <<count, wire>>

-----------------------------------------------------------------------------
(***************************************************************************)
(* Leaving: cc_finalize_sw_info, and the way out of the process.  Both     *)
(* queues keep their mutex locked when they are deleted.                   *)
(***************************************************************************)
DeleteRecvQueue ==
  /\ main = "delete_recv"
  /\ recvQueue' = NULL
  /\ main' = "delete_send"
  /\ UNCHANGED <<reads, recvBuf, handled, sendVars, poolVars>>

DeleteSendQueue ==
  /\ main = "delete_send"
  /\ sendQueue' = NULL
  /\ main' = "close_pool"
  /\ UNCHANGED <<recvVars, count, sent, wire, poolVars>>

\* Mutation: pool_destroy waits for the threads that are at work.
ClosePoolWaiting ==
  /\ main = "close_pool"
  /\ running = {}
  /\ Pool!Close
  /\ main' = "discard"
  /\ UNCHANGED <<recvVars, sendVars>>

\* pool_destroy up to the drained list, and after it.
ClosePool ==
  /\ main = "close_pool"
  /\ Pool!Close
  /\ main' = "discard"
  /\ UNCHANGED <<recvVars, sendVars>>

DiscardJobs ==
  /\ main = "discard"
  /\ \/ Pool!Discard
     \/ pending = <<>> /\ UNCHANGED poolVars
  /\ main' = "returned"
  /\ UNCHANGED <<recvVars, sendVars>>

\* cc_conn_accept returns to cc_polling, whose select fails on the descriptor
\* the child has closed; main returns.
Leave ==
  /\ main = "returned"
  /\ main' = "exited"
  /\ UNCHANGED <<recvVars, sendVars, poolVars>>

ReadLengths == -1 .. BufferSize

Next ==
  \/ ReadNothing
  \/ \E n \in ReadLengths, kind \in Kinds : Read(n, kind)
  \/ Start
  \/ \E j \in Jobs : \/ Reply(j) \/ HandleSilently(j) \/ HandleUndefined(j)
                     \/ Finish(j)
  \/ \E m \in AppMsgs : AppSend(m) \/ AppSendUndefined(m)
  \/ StartFlush \/ FlushEnds \/ FlushStops \/ Write \/ WritePart \/ WriteFails
  \/ DeleteRecvQueue \/ DeleteSendQueue \/ ClosePool \/ DiscardJobs \/ Leave

SafeSpec == Init /\ [][Next]_vars

\* Nothing but the main thread is relied on, and only once it tears down.
Spec == SafeSpec /\ WF_vars(DeleteRecvQueue \/ DeleteSendQueue \/ ClosePool
                            \/ DiscardJobs \/ Leave)

-----------------------------------------------------------------------------
(***************************************************************************)
(* Properties.                                                             *)
(***************************************************************************)

\* create_trans_info gives a job whatever is first in recv_queue, not the
\* buffer just read.  All the same a job never carries the message of
\* another read: it is its own, or none.
JobCarriesOwnMessage ==
  \A j \in Jobs : recvBuf[j] # NULL => recvBuf[j].read = j

\* Messages reach the wire in the order they were queued, by whichever
\* thread, and none twice, although a flush may fail or stop in between.
WireInOrder ==
  \E f \in [DOMAIN wire -> DOMAIN sent] :
    /\ \A i \in DOMAIN wire : wire[i] = sent[f[i]]
    /\ \A i, k \in DOMAIN wire : i < k => f[i] < f[k]

\* The message the switch sent is no longer than the buffer it was read into,
\* "no more than the CC_BUFFER_SIZE" as cc_recv_from_secure_channel says of
\* tmp_buff->length.
RecvLengthBounded ==
  \A j \in Jobs : recvBuf[j] # NULL => recvBuf[j].length <= BufferSize

\* A channel that is given up is torn down and its process ends, although
\* threads of its pool may wait for good for the mutex of the deleted queue.
TeardownEnds ==
  main \in {"delete_recv", "delete_send", "close_pool", "discard", "returned"}
    ~> main \in {"exited", "undefined"}
=============================================================================
