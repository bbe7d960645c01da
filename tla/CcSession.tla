----------------------------- MODULE CcSession ------------------------------
(***************************************************************************)
(* The handlers of lib/cc_of_msg_recv.c and the senders of                 *)
(* lib/cc_of_msg_send.c on one connection, statement by statement where    *)
(* they share state: the counter *xid_latest, which they read and write    *)
(* without a lock, the send queue, and the buffer of each message.  The    *)
(* main thread is there as far as the handlers meet it: it makes the jobs  *)
(* and it deletes the queues.  CcSession is shown to implement             *)
(* CcSecureChannel, which has each handler as one step.                    *)
(*                                                                         *)
(* A transaction identifier is a number of two bytes; hosts are            *)
(* little-endian.  Memory does not run out.                                *)
(***************************************************************************)
EXTENDS Integers, Sequences, FiniteSets

CONSTANTS Workers,   \* CC_MAX_THREAD_NUM
          MaxReads,  \* bound: how often the channel is read
          Base,      \* how many values a byte has
          Types,     \* the types of the messages that are read
          PeerXids,  \* the identifiers in them, as they are on the wire
          Calls,     \* the cc_send_... functions called, once each
          NULL

Xids == 0 .. Base * Base - 1

\* The types cc_ofpmsg_handle has a case for, by what their handlers do:
\* answer; look for an xid entry; hand the message to the application; ask the
\* validator of another type (validate_flow_mod, validate_port_status).
Answered == {"HELLO", "ECHO_REQUEST"}
WithEntry == {"ECHO_REPLY", "GET_CONFIG_REPLY"}
Forwarded == {"VENDOR", "PACKET_IN", "PORT_STATUS"}
Mistaken == {"FLOW_REMOVED", "STATS_REPLY"}
Cases == Answered \cup WithEntry \cup Forwarded \cup Mistaken \cup {"ERROR"}

\* The senders above "need to repair"; the three that make their message from
\* a buffer they have not set.
Senders == {"hello", "echo_request", "echo_reply", "features_request",
            "get_config_request", "set_config", "error"}
FromUnsetBuffer == {"echo_request", "echo_reply", "error"}

ASSUME SessionAssumption ==
  /\ {Workers, MaxReads, Base} \subseteq Nat \ {0}
  /\ Types \subseteq STRING
  /\ PeerXids \subseteq Xids
  /\ Calls \subseteq Senders

VARIABLES main,       \* where the main thread is
          reads,      \* how often the channel has been read
          recvQueue, sendQueue,
          recvBuf,    \* for each job, the recv_buf of its trans_info
          pc,         \* for each job, what its thread does next
          sendBuf,    \* for each job, the identifier in its send_buf
          frees,      \* for each job, how often its buffer has been freed
          latest,     \* *xid_latest
          call,       \* for each sender, what it does next
          callXid,    \* for each sender, the identifier it has read
          sent,       \* history: what was enqueued on send_queue
          pending, running, finished, discarded, closed  \* the thread pool

poolVars == <<pending, running, finished, discarded, closed>>
jobVars == <<pc, sendBuf, frees>>
callVars == <<call, callXid>>
readVars == <<reads, recvQueue, recvBuf>>
queueVars == <<sendQueue, sent>>
vars == <<main, readVars, queueVars, jobVars, latest, callVars, poolVars>>

Jobs == 1 .. MaxReads

\* Who a message in the send queue is from.
Replies == [reply : Jobs]
AppMsgs == [call : Calls]
ReplyOf(j) == [reply |-> j]

\* A message that was read; valid is what the validator of its type says.
Message == [read : Jobs, type : Types, valid : BOOLEAN, xid : PeerXids]

RecvQueue == INSTANCE MessageQueue WITH
  Queues <- {}, Msgs <- Message, queue <- recvQueue, output <- <<>>
SendQueue == INSTANCE MessageQueue WITH
  Queues <- {}, Msgs <- [by : Replies \cup AppMsgs, xid : Xids],
  queue <- sendQueue, output <- <<>>
Pool == INSTANCE JobPool

TypeOK ==
  /\ main \in {"select", "delete_recv", "delete_send", "close_pool",
               "discard", "returned", "undefined"}
  /\ reads \in 0 .. MaxReads
  /\ recvBuf \in [Jobs -> Message \cup {NULL}]
  /\ pc \in [Jobs -> {"dispatch", "validate", "latest", "create", "enqueue",
                      "app", "free", "return", "done"}]
  /\ sendBuf \in [Jobs -> Xids \cup {NULL}]
  /\ frees \in [Jobs -> 0 .. 2]
  /\ latest \in Xids
  /\ call \in [Calls -> {"begin", "increment", "reread", "enqueue", "done"}]
  /\ callXid \in [Calls -> Xids \cup {NULL}]

Init ==
  /\ main = "select"
  /\ reads = 0
  /\ recvQueue = RecvQueue!NewQueue
  /\ sendQueue = SendQueue!NewQueue
  /\ recvBuf = [j \in Jobs |-> NULL]
  /\ pc = [j \in Jobs |-> "dispatch"]
  /\ sendBuf = [j \in Jobs |-> NULL]
  /\ frees = [j \in Jobs |-> 0]
  /\ latest = 0
  /\ call = [c \in Calls |-> "begin"]
  /\ callXid = [c \in Calls |-> NULL]
  /\ sent = <<>>
  /\ Pool!Init

Alive == main # "undefined"

\* ntohl and htonl.
ntohl(x) == (x % Base) * Base + x \div Base

After(x) == (x + 1) % (Base * Base)

-----------------------------------------------------------------------------
(***************************************************************************)
(* The main thread.                                                        *)
(***************************************************************************)

\* cc_recv_from_secure_channel; m is NULL when less than a header was read.
\* The loop may be left after any read.  Enqueueing on the queue that the
\* first message has drained writes to a freed element, which may be in the
\* send queue by then.
Receive(m) ==
  /\ main = "select"
  /\ reads < MaxReads
  /\ reads' = reads + 1
  /\ LET q == IF m = NULL THEN recvQueue ELSE RecvQueue!Enqueued(recvQueue, m)
     IN  /\ recvBuf' = [recvBuf EXCEPT ![reads + 1] = RecvQueue!FirstOf(q)]
         /\ recvQueue' = RecvQueue!Dequeued(q)
  /\ Pool!Submit(reads + 1)
  /\ \/ main' \in {"select", "delete_recv"}
     \/ m # NULL /\ recvQueue.drained /\ main' = "undefined"
  /\ UNCHANGED <<queueVars, jobVars, latest, callVars>>

DeleteRecvQueue ==
  /\ main = "delete_recv"
  /\ recvQueue' = NULL
  /\ main' = "delete_send"
  /\ UNCHANGED <<reads, recvBuf, queueVars, jobVars, latest, callVars, poolVars>>

DeleteSendQueue ==
  /\ main = "delete_send"
  /\ sendQueue' = NULL
  /\ main' = "close_pool"
  /\ UNCHANGED <<readVars, sent, jobVars, latest, callVars, poolVars>>

ClosePool ==
  /\ main = "close_pool"
  /\ Pool!Close
  /\ main' = "discard"
  /\ UNCHANGED <<readVars, queueVars, jobVars, latest, callVars>>

DiscardJobs ==
  /\ main = "discard"
  /\ \/ Pool!Discard
     \/ pending = <<>> /\ UNCHANGED poolVars
  /\ main' = "returned"
  /\ UNCHANGED <<readVars, queueVars, jobVars, latest, callVars>>

-----------------------------------------------------------------------------
(***************************************************************************)
(* The handlers.                                                           *)
(***************************************************************************)
At(j, l) == Alive /\ j \in running /\ pc[j] = l
Goto(j, l) == pc' = [pc EXCEPT ![j] = l]
Type(j) == recvBuf[j].type

Start ==
  /\ Alive
  /\ Pool!Start
  /\ UNCHANGED <<main, readVars, queueVars, jobVars, latest, callVars>>

\* The switch of cc_ofpmsg_handle.
Dispatch(j) ==
  /\ At(j, "dispatch")
  /\ recvBuf[j] # NULL
  /\ Goto(j, IF Type(j) \in Cases THEN "validate" ELSE "return")
  /\ UNCHANGED <<main, readVars, queueVars, sendBuf, frees, latest, callVars,
                 poolVars>>

\* The job has no buffer, or cc_recv_err_msg looks at the wildcards behind a
\* pointer it has not set.
DispatchUndefined(j) ==
  /\ At(j, "dispatch")
  /\ recvBuf[j] # NULL => Type(j) = "ERROR"
  /\ main' = "undefined"
  /\ UNCHANGED <<readVars, queueVars, jobVars, latest, callVars, poolVars>>

\* Mutation: an echo request that is not valid is answered all the same.
EchoUnchecked(m) ==
  {m.type = "ECHO_REQUEST" \/ (m.valid /\ m.type \notin Mistaken)}

\* What ret < 0 says of the message.  cc_recv_hello_msg has not set ret.
Verdicts(m) == IF m.type = "HELLO" THEN BOOLEAN
               ELSE {m.valid /\ m.type \notin Mistaken}

\* Mutation: the handler of a reply looks for its entry until there is one.
ValidateUntilFound(j) ==
  /\ At(j, "validate")
  /\ \E accepted \in Verdicts(recvBuf[j]) :
       Goto(j, IF ~accepted THEN "free"
               ELSE IF Type(j) \in WithEntry THEN "validate" ELSE "latest")
  /\ UNCHANGED <<main, readVars, queueVars, sendBuf, frees, latest, callVars,
                 poolVars>>

\* Mutation: the early return of a handler forgets its buffer.
ValidateLeaks(j) ==
  /\ At(j, "validate")
  /\ \E accepted \in Verdicts(recvBuf[j]) :
       Goto(j, IF ~accepted THEN "return"
               ELSE IF Type(j) \in WithEntry THEN "free" ELSE "latest")
  /\ UNCHANGED <<main, readVars, queueVars, sendBuf, frees, latest, callVars,
                 poolVars>>

\* cc_lookup_xid_entry never finds the entry of a reply.
Validate(j) ==
  /\ At(j, "validate")
  /\ \E accepted \in Verdicts(recvBuf[j]) :
       Goto(j, IF accepted /\ Type(j) \notin WithEntry THEN "latest" ELSE "free")
  /\ UNCHANGED <<main, readVars, queueVars, sendBuf, frees, latest, callVars,
                 poolVars>>

\* *xid_latest is set to what follows the identifier of the message.
SetLatest(j) ==
  /\ At(j, "latest")
  /\ latest' = After(ntohl(recvBuf[j].xid))
  /\ Goto(j, CASE Type(j) \in Answered -> "create"
               [] Type(j) \in Forwarded -> "app"
               [] OTHER -> "free")
  /\ UNCHANGED <<main, readVars, queueVars, sendBuf, frees, callVars, poolVars>>

\* A features request gets its identifier from *xid_latest, which is read
\* again.  An echo reply gets the one in the request, as it was on the wire;
\* cc_create_header brings either into network order.
CreatedXid(j) == ntohl(IF Type(j) = "HELLO" THEN latest ELSE recvBuf[j].xid)

Create(j) ==
  /\ At(j, "create")
  /\ sendBuf' = [sendBuf EXCEPT ![j] = CreatedXid(j)]
  /\ Goto(j, "enqueue")
  /\ UNCHANGED <<main, readVars, queueVars, frees, latest, callVars, poolVars>>

\* On a deleted queue the thread waits for good for its mutex.
Put(who, xid) ==
  /\ sendQueue # NULL
  /\ sendQueue' = SendQueue!Enqueued(sendQueue, [by |-> who, xid |-> xid])
  /\ sent' = Append(sent, [by |-> who, xid |-> xid])

Enqueue(j) ==
  /\ At(j, "enqueue")
  /\ Put(ReplyOf(j), sendBuf[j])
  /\ Goto(j, "free")
  /\ UNCHANGED <<main, readVars, sendBuf, frees, latest, callVars, poolVars>>

\* A buffer that is freed a second time.
Free(j) ==
  /\ frees' = [frees EXCEPT ![j] = @ + 1]
  /\ main' = IF frees[j] = 0 THEN main ELSE "undefined"

\* cc_insert_to_app_queue frees the message and reports an error.
InsertToAppQueue(j) ==
  /\ At(j, "app")
  /\ Free(j)
  /\ Goto(j, "free")
  /\ UNCHANGED <<readVars, queueVars, sendBuf, latest, callVars, poolVars>>

\* The last free_buffer of a handler, on each of its ways out.
FreeBuffer(j) ==
  /\ At(j, "free")
  /\ Free(j)
  /\ Goto(j, "return")
  /\ UNCHANGED <<readVars, queueVars, sendBuf, latest, callVars, poolVars>>

\* cc_ofpmsg_handle frees a message of a type it has no case for; of the others
\* it does, or not, as two variables it has not set happen to say.
Return(j) ==
  /\ At(j, "return")
  /\ \/ Free(j)
     \/ Type(j) \in Cases /\ UNCHANGED <<main, frees>>
  /\ Goto(j, "done")
  /\ Pool!Finish(j)
  /\ UNCHANGED <<readVars, queueVars, sendBuf, latest, callVars>>

-----------------------------------------------------------------------------
(***************************************************************************)
(* The senders, called by another thread of the process.                   *)
(***************************************************************************)
CallAt(c, l) == Alive /\ call[c] = l

\* The message is made with the identifier *xid_latest has.
BeginCall(c) ==
  /\ CallAt(c, "begin")
  /\ c # "set_config"
  /\ callXid' = [callXid EXCEPT ![c] = latest]
  /\ call' = [call EXCEPT ![c] = IF c = "error" THEN "enqueue" ELSE "increment"]
  /\ UNCHANGED <<main, readVars, queueVars, jobVars, latest, poolVars>>

CallUndefined(c) ==
  /\ CallAt(c, "begin")
  /\ c \in FromUnsetBuffer
  /\ main' = "undefined"
  /\ UNCHANGED <<readVars, queueVars, jobVars, latest, callVars, poolVars>>

\* xid_latest++ adds to what it reads now, or to what was read for the message.
Increment(c) ==
  /\ CallAt(c, "increment")
  /\ latest' \in {After(latest), After(callXid[c])}
  /\ call' = [call EXCEPT ![c] = "enqueue"]
  /\ UNCHANGED <<main, readVars, queueVars, jobVars, callXid, poolVars>>

\* cc_generate_xid, which stays at the largest value, and returns what
\* *xid_latest has by then.
Generate ==
  /\ \E c \in Calls : /\ c = "set_config"
                      /\ CallAt(c, "begin")
                      /\ call' = [call EXCEPT ![c] = "reread"]
  /\ latest' = IF latest # Base * Base - 1 THEN latest + 1 ELSE latest
  /\ UNCHANGED <<main, readVars, queueVars, jobVars, callXid, poolVars>>

Reread(c) ==
  /\ CallAt(c, "reread")
  /\ callXid' = [callXid EXCEPT ![c] = latest]
  /\ call' = [call EXCEPT ![c] = "enqueue"]
  /\ UNCHANGED <<main, readVars, queueVars, jobVars, latest, poolVars>>

EnqueueCall(c) ==
  /\ CallAt(c, "enqueue")
  /\ Put([call |-> c], ntohl(callXid[c]))
  /\ call' = [call EXCEPT ![c] = "done"]
  /\ UNCHANGED <<main, readVars, jobVars, latest, callXid, poolVars>>

-----------------------------------------------------------------------------
HandlerStep(j) ==
  \/ Dispatch(j) \/ DispatchUndefined(j) \/ Validate(j) \/ SetLatest(j)
  \/ Create(j) \/ Enqueue(j) \/ InsertToAppQueue(j) \/ FreeBuffer(j)
  \/ Return(j)

Next ==
  \/ \E m \in [read : {reads + 1}, type : Types, valid : BOOLEAN, xid : PeerXids]
              \cup {NULL} : Receive(m)
  \/ DeleteRecvQueue \/ DeleteSendQueue \/ ClosePool \/ DiscardJobs
  \/ Start
  \/ \E j \in Jobs : HandlerStep(j)
  \/ \E c \in Calls : \/ BeginCall(c) \/ CallUndefined(c) \/ Increment(c)
                      \/ Reread(c) \/ EnqueueCall(c)
  \/ Generate

SafeSpec == Init /\ [][Next]_vars

\* A thread that is in a handler goes on as long as it can.
Spec == SafeSpec /\ \A j \in Jobs : WF_vars(HandlerStep(j))

-----------------------------------------------------------------------------
(***************************************************************************)
(* Properties.                                                             *)
(***************************************************************************)

\* Each handler and each sender, with all its steps among those of the others,
\* is one step of CcSecureChannel, or none: a message is answered as its kind
\* says and once, a sender queues one message, and what is undefined there is
\* all that can be undefined here.
KindOf(m) == CASE m.type = "HELLO" -> "hello"
               [] m.type = "ERROR" -> "error"
               [] m.type = "ECHO_REQUEST" /\ m.valid -> "echo"
               [] m.type \in Forwarded /\ m.valid -> "app"
               [] OTHER -> "silent"

AsRead(m) == [read |-> m.read, kind |-> KindOf(m), length |-> 2]
AsSent(e) == e.by
MapSeq(f(_), s) == [i \in DOMAIN s |-> f(s[i])]
MapQueue(f(_), q) == IF q = NULL THEN NULL
                     ELSE [q EXCEPT !.fifo = MapSeq(f, @)]

Channel == INSTANCE CcSecureChannel WITH
  BufferSize <- 2, HeaderSize <- 2, SizeModulus <- 4, FlushLimit <- 1,
  recvQueue <- MapQueue(AsRead, recvQueue),
  sendQueue <- MapQueue(AsSent, sendQueue),
  recvBuf <- [j \in Jobs |->
                IF recvBuf[j] = NULL THEN NULL ELSE AsRead(recvBuf[j])],
  handled <- {j \in Jobs : \/ /\ pc[j] \in {"return", "done"}
                              /\ KindOf(recvBuf[j]) # "app"
                           \/ \E i \in DOMAIN sent : sent[i].by = ReplyOf(j)},
  sent <- MapSeq(AsSent, sent),
  count <- 0, wire <- <<>>

\* Neither a queue nor a message is mistaken for a deleted or a missing one.
ASSUME NullAssumption ==
  /\ NULL \notin SendQueue!QueueState /\ NULL \notin Channel!SendQueue!QueueState
  /\ NULL \notin RecvQueue!QueueState /\ NULL \notin Channel!RecvQueue!QueueState
  /\ NULL \notin Message /\ NULL \notin Channel!Message

ImplementsChannel == Channel!SafeSpec

\* A thread comes to the end of its handler and is free for the next job,
\* unless the send queue is deleted under it, upon which it may wait for the
\* queue's mutex for good.
HandlersEnd ==
  \A j \in Jobs :
    j \in running ~> (j \in finished \/ sendQueue = NULL \/ ~Alive)

\* A thread that is done with its job has freed the buffer, whether the message
\* was refused, answered, without its entry or of no known type, and has freed
\* it once, unless the process is past all help.
FreedOnce == Alive => \A j \in finished : frees[j] = 1

\* An echo reply has the identifier of its request: "the request need a reply
\* with same xid in reply", says cc_recv_echo_request, and include/openflow.h
\* that "Replies use the same id as was in the request".
SameXidInReply ==
  \A i \in DOMAIN sent, j \in Jobs :
    sent[i].by = ReplyOf(j) /\ Type(j) = "ECHO_REQUEST"
      => sent[i].xid = recvBuf[j].xid
=============================================================================
